---- MODULE Spec2Model ----
(***************************************************************************)
(* Model of the DW outreach CRM backend (src/api/app.py): the pipeline     *)
(* advancement rule, the handlers that invoke it or assign a lead's status *)
(* directly, and the reply matcher of POST /api/emails/check-replies.      *)
(*                                                                         *)
(* Strings whose content the code inspects (addresses, subjects) are       *)
(* sequences of one-character strings, so that lower-casing, prefix and    *)
(* substring tests are computed.  A SQL NULL / Python None / absent JSON   *)
(* key is the value NULL.  Timestamps and free-text columns that no        *)
(* handler reads back (last_activity, notes, ...) are not part of the      *)
(* state.                                                                  *)
(***************************************************************************)
EXTENDS Integers, Sequences, FiniteSets, TLC

VARIABLES leads, emails, logs, proposals, tracked, sync_status, reqs, lastOp,
          stage_history, delivered

vars == <<leads, emails, logs, proposals, tracked, sync_status, reqs, lastOp,
          stage_history, delivered>>

(***************************************************************************)
(* Bounds of the model.                                                    *)
(***************************************************************************)
MaxLeads == 1
MaxEmails == 1
MaxLogs == 1
MaxInbox == 2
MaxReqs == 2
MaxFrags == 2
MaxBatch == 2

\* None / SQL NULL / JSON null for a scalar column or field; MISSING is a key
\* absent from a request body; NONE_STR is None where a string is expected.
NULL == "NULL"
MISSING == "MISSING"
NONE_STR == << "NULL" >>
MISSING_STR == << "MISSING" >>

\* The state of the mail tracking tables before any sync: no TrackedEmail row,
\* no EmailSyncStatus row (its columns at their defaults).
NO_SYNC_STATUS == [exists |-> FALSE, status |-> "pending", emails_synced |-> 0]

\* Row ids start at 1; 0 stands for "no row" (a NULL foreign key, or an id
\* that matches no row of the table).
LeadIds == 1..MaxLeads
ReqIds == 1..MaxReqs

\* data.get(key, default)
Get(value, default) == IF value = MISSING THEN default ELSE value
GetStr(value, default) == IF value = MISSING_STR THEN default ELSE value

(***************************************************************************)
(* Pipeline statuses.                                                      *)
(***************************************************************************)
PIPELINE_ORDER ==
    << "Not Contacted", "Attempted", "Connected", "Follow-up Needed",
       "Qualified Lead", "Proposal Sent", "Converted" >>

TERMINAL_STATUSES == {"Not Interested", "Converted"}

\* Values the status column can hold: the canonical ones, the terminal
\* "Not Interested", a value outside the order (the column is a free String
\* that the direct update endpoints assign verbatim) and NULL (unset).
Statuses ==
    {PIPELINE_ORDER[i] : i \in 1..Len(PIPELINE_ORDER)}
        \cup {"Not Interested", "Archived", NULL}

\* PIPELINE_ORDER.index(s) if s in PIPELINE_ORDER else -1   (0-based)
pipeline_index(s) ==
    IF \E i \in 1..Len(PIPELINE_ORDER) : PIPELINE_ORDER[i] = s
    THEN (CHOOSE i \in 1..Len(PIPELINE_ORDER) : PIPELINE_ORDER[i] = s) - 1
    ELSE -1

\* Seeded faults of advance_lead_status.
advance_allow_downgrade(status, new_status) ==
    LET current == IF status = NULL THEN "Not Contacted" ELSE status
    IN  IF current \in TERMINAL_STATUSES THEN status
        ELSE IF pipeline_index(new_status) /= pipeline_index(current)
             THEN new_status ELSE status

advance_ignore_terminal(status, new_status) ==
    LET current == IF status = NULL THEN "Not Contacted" ELSE status
    IN  IF pipeline_index(new_status) > pipeline_index(current)
        THEN new_status ELSE status

advance_one_step(status, new_status) ==
    LET current == IF status = NULL THEN "Not Contacted" ELSE status
        cur_idx == pipeline_index(current)
    IN  IF current \in TERMINAL_STATUSES THEN status
        ELSE IF pipeline_index(new_status) > cur_idx
             THEN PIPELINE_ORDER[cur_idx + 2] ELSE status

\* advance_lead_status(session, lead, new_status): the value of lead.status
\* after the call, for a lead that exists (a missing lead is handled by the
\* callers below: the function returns at once).
\* Seeded fault: `>=` for `>` in the comparison of the two indices.
advance_accepts_equal_index(status, new_status) ==
    LET current == IF status = NULL THEN "Not Contacted" ELSE status
    IN  IF current \in TERMINAL_STATUSES THEN status
        ELSE IF pipeline_index(new_status) >= pipeline_index(current)
             THEN new_status ELSE status

advance_lead_status(status, new_status) ==
    LET current == IF status = NULL THEN "Not Contacted" ELSE status
    IN  IF current \in TERMINAL_STATUSES THEN status
        ELSE LET cur_idx == pipeline_index(current)
                 new_idx == pipeline_index(new_status)
             IN  IF new_idx > cur_idx THEN new_status ELSE status

(***************************************************************************)
(* Leads and activity logs.                                                *)
(***************************************************************************)
ADDR_A == << "a", "@", "x" >>
ADDR_A_UPPER == << "A", "@", "X" >>
ADDR_B == << "b", "@", "x" >>

\* Lead rows as create_lead leaves them: status and email come from the request
\* body (status defaults to "Not Contacted"), activity_count is 0.  The leads
\* of the model are created with an address; update_lead can clear it.
\* pipeline_stage_id and stage_entered_at are NULL (0) until a move.
LeadRows ==
    [status : Statuses, email : {ADDR_A}, activity_count : {0},
     pipeline_stage_id : {0}, stage_entered_at : {0}]

\* dw_proposals holds one proposal per lead (proposal p belongs to lead p)
\* and one with no lead (proposal 0), each created with the default status.
\* logs[l] is the number of Log rows of lead l, logs[0] of rows with no lead.

\* delivered[e] is the number of sendMail requests for generated email e that
\* the mail provider accepted (answered 202): the messages it delivers.  A
\* row whose status is "sent" has been accepted once.
delivered_for(email_rows) ==
    [e \in (1..MaxEmails) \cup DOMAIN email_rows |->
        IF e \in DOMAIN email_rows /\ email_rows[e].status = "sent" THEN 1 ELSE 0]

\* Number of Log rows, all leads and orphans together.
TotalLogs == logs[0] + (LET Sum[i \in 0..MaxLeads] ==
                            IF i = 0 THEN 0 ELSE Sum[i - 1] + logs[i]
                        IN  Sum[MaxLeads])

Init ==
    /\ leads \in [LeadIds -> LeadRows]
    /\ emails = << >>
    /\ logs = [l \in 0..MaxLeads |-> 0]
    /\ proposals = [p \in 0..MaxLeads |-> [lead_id |-> p, status |-> "draft"]]
    /\ tracked = << >>
    /\ sync_status = NO_SYNC_STATUS
    /\ reqs = [r \in ReqIds |-> [pc |-> "idle"]]
    /\ stage_history = << >>
    /\ delivered = delivered_for(emails)
    /\ lastOp = [op |-> "none"]

\* --- advance_lead_status applied to a lead -------------------------------
advance_call(l, new_status) ==
    /\ leads' = [leads EXCEPT
                    ![l].status = advance_lead_status(leads[l].status, new_status)]
    /\ lastOp' = [op |-> "advance_lead_status", lead |-> l,
                  before |-> leads[l].status, proposed |-> new_status,
                  repeat |-> /\ lastOp.op = "advance_lead_status"
                             /\ lastOp.lead = l
                             /\ lastOp.proposed = new_status]
    /\ UNCHANGED <<emails, logs, proposals, reqs, tracked, sync_status, stage_history, delivered>>

NextAdvance == \E l \in LeadIds, new_status \in Statuses : advance_call(l, new_status)

SpecAdvance == Init /\ [][NextAdvance]_vars

(***************************************************************************)
(* Activity logs: POST /api/leads/<id>/quick-log and /api/leads/<id>/logs. *)
(* A request body is a record; a field equal to MISSING is an absent key.  *)
(***************************************************************************)
ActivityTypeInputs == {"Call", "Email", "Meeting", "Note", "Task", "Other", MISSING}
OutcomeInputs == {"Connected", "Interested", "No Answer", MISSING}
LogBodies == [activity_type : ActivityTypeInputs, outcome : OutcomeInputs]

\* The if/elif chain shared by the two handlers: the status handed to
\* advance_lead_status, or NULL when the chain calls nothing.
log_branch(activity_type, outcome) ==
    IF activity_type = "Call"
    THEN IF outcome \in {"Connected", "Interested"} THEN "Connected" ELSE "Attempted"
    ELSE IF activity_type = "Email" THEN "Attempted"
    ELSE IF activity_type = "Meeting" THEN "Connected"
    ELSE NULL

\* Seeded faults of the two chains.
quick_log_note_advances(data) ==
    LET p == log_branch(Get(data.activity_type, "Call"), Get(data.outcome, ""))
    IN  IF p = NULL THEN "Attempted" ELSE p

create_log_call_always_connected(data) ==
    IF Get(data.activity_type, "") = "Call" THEN "Connected"
    ELSE log_branch(Get(data.activity_type, ""), Get(data.outcome, ""))

\* quick_log_activity: activity_type defaults to "Call", outcome to "".
quick_log_proposal(data) ==
    log_branch(Get(data.activity_type, "Call"), Get(data.outcome, ""))

\* create_log: activity_type and outcome default to "".
create_log_proposal(data) ==
    log_branch(Get(data.activity_type, ""), Get(data.outcome, ""))

\* The part common to both handlers once the proposal is known: 404 for an
\* unknown lead; otherwise one Log row, activity_count + 1, the rule, commit.
log_request(op, l, data, proposed) ==
    IF l \notin LeadIds
    THEN /\ lastOp' = [op |-> op, lead |-> l, code |-> 404]
         /\ UNCHANGED <<leads, emails, logs, proposals, reqs, tracked, sync_status, stage_history, delivered>>
    ELSE /\ TotalLogs < MaxLogs
         /\ logs' = [logs EXCEPT ![l] = @ + 1]
         /\ leads' = [leads EXCEPT
                ![l].activity_count = @ + 1,
                ![l].status = IF proposed = NULL THEN @
                              ELSE advance_lead_status(@, proposed)]
         /\ lastOp' = [op |-> op, lead |-> l, code |-> 200,
                       activity_type |-> data.activity_type,
                       outcome |-> data.outcome,
                       proposed |-> proposed,
                       before |-> leads[l].status]
         /\ UNCHANGED <<emails, proposals, reqs, tracked, sync_status, stage_history, delivered>>

quick_log_activity(l, data) ==
    log_request("quick_log_activity", l, data, quick_log_proposal(data))

create_log(l, data) ==
    log_request("create_log", l, data, create_log_proposal(data))

(***************************************************************************)
(* Direct assignment of a lead's status.                                   *)
(***************************************************************************)
\* PUT /api/leads/<id>: every listed key present in the body is assigned.
update_lead(l, data) ==
    IF l \notin LeadIds
    THEN /\ lastOp' = [op |-> "update_lead", lead |-> l, code |-> 404]
         /\ UNCHANGED <<leads, emails, logs, proposals, reqs, tracked, sync_status, stage_history, delivered>>
    ELSE /\ leads' = [leads EXCEPT
                ![l].status = Get(data.status, @),
                ![l].email = GetStr(data.email, @)]
         /\ lastOp' = [op |-> "update_lead", lead |-> l, code |-> 200]
         /\ UNCHANGED <<emails, logs, proposals, reqs, tracked, sync_status, stage_history, delivered>>

\* POST /api/leads/<id>/quick-status
quick_status_update(l, data) ==
    IF l \notin LeadIds
    THEN /\ lastOp' = [op |-> "quick_status_update", lead |-> l, code |-> 404]
         /\ UNCHANGED <<leads, emails, logs, proposals, reqs, tracked, sync_status, stage_history, delivered>>
    ELSE /\ leads' = [leads EXCEPT ![l].status = Get(data.status, @)]
         /\ lastOp' = [op |-> "quick_status_update", lead |-> l, code |-> 200]
         /\ UNCHANGED <<emails, logs, proposals, reqs, tracked, sync_status, stage_history, delivered>>

\* POST /api/leads/bulk-update: a falsy status (absent, null) assigns nothing.
bulk_update_leads(lead_ids, status) ==
    IF lead_ids = {}
    THEN /\ lastOp' = [op |-> "bulk_update_leads", lead |-> 0, code |-> 400]
         /\ UNCHANGED <<leads, emails, logs, proposals, reqs, tracked, sync_status, stage_history, delivered>>
    ELSE /\ leads' = [l \in LeadIds |->
                IF l \in lead_ids /\ status \notin {MISSING, NULL}
                THEN [leads[l] EXCEPT !.status = status] ELSE leads[l]]
         /\ lastOp' = [op |-> "bulk_update_leads", lead |-> 0, code |-> 200]
         /\ UNCHANGED <<emails, logs, proposals, reqs, tracked, sync_status, stage_history, delivered>>

\* Rows of dw_automation_rules as create_automation_rule stores them:
\* action_type and the "new_status" key of action_config.
AutomationRules ==
    [action_type : {"create_reminder", "send_notification"}, new_status : {MISSING}]
        \cup [action_type : {"update_status"}, new_status : Statuses \cup {MISSING}]

\* POST /api/automation/rules/<id>/execute for a rule that exists, over the
\* leads of lead_ids that exist.  Reminder and Notification rows and the
\* rule's execution_count are not part of the state.
execute_automation_rule(rule, lead_ids) ==
    /\ leads' = [l \in LeadIds |->
            IF /\ l \in lead_ids
               /\ rule.action_type = "update_status"
               /\ rule.new_status \notin {MISSING, NULL}
            THEN [leads[l] EXCEPT !.status = rule.new_status] ELSE leads[l]]
    /\ lastOp' = [op |-> "execute_automation_rule", lead |-> 0, code |-> 200]
    /\ UNCHANGED <<emails, logs, proposals, reqs, tracked, sync_status, stage_history, delivered>>

\* Request bodies of the runs: every body for a lead that exists, one body
\* for an id that matches no lead.
StatusBodies == [status : Statuses \cup {MISSING}, email : {MISSING_STR}]
EmailBodies == [status : {MISSING}, email : {ADDR_A, NONE_STR}]
BODY_CALL == [activity_type |-> "Call", outcome |-> "No Answer"]

BodiesFor(l, bodies, sample) == IF l \in LeadIds THEN bodies ELSE {sample}

NextLeads ==
    \/ \E l \in LeadIds \cup {0} : \E data \in BodiesFor(l, LogBodies, BODY_CALL) :
            quick_log_activity(l, data)
    \/ \E l \in LeadIds \cup {0} : \E data \in BodiesFor(l, LogBodies, BODY_CALL) :
            create_log(l, data)
    \/ \E l \in LeadIds \cup {0} :
            \E data \in BodiesFor(l, StatusBodies,
                                  [status |-> MISSING, email |-> MISSING_STR]) :
                update_lead(l, data)
    \/ \E l \in LeadIds \cup {0} :
            \E data \in BodiesFor(l, [status : Statuses \cup {MISSING}],
                                  [status |-> MISSING]) :
                quick_status_update(l, data)
    \/ \E ids \in SUBSET LeadIds :
            \E status \in (IF ids = {} THEN {MISSING} ELSE Statuses \cup {MISSING}) :
                bulk_update_leads(ids, status)
    \/ \E rule \in AutomationRules, ids \in SUBSET LeadIds :
            execute_automation_rule(rule, ids)

SpecLeads == Init /\ [][NextLeads]_vars

(***************************************************************************)
(* POST /api/activities: a Log row for the lead named in the body.         *)
(***************************************************************************)
\* lead_id is the body's "lead_id": 0 stands for a falsy one (absent, null,
\* 0) and gives 400, an id of no lead gives 404.  The handler adds the Log and counts the activity; it
\* makes no call to advance_lead_status.
create_activity(lead_id, data) ==
    IF lead_id = 0
    THEN /\ lastOp' = [op |-> "create_activity", lead |-> 0, code |-> 400]
         /\ UNCHANGED <<leads, emails, logs, proposals, reqs, tracked, sync_status, stage_history, delivered>>
    ELSE IF lead_id \notin LeadIds
    THEN /\ lastOp' = [op |-> "create_activity", lead |-> lead_id, code |-> 404]
         /\ UNCHANGED <<leads, emails, logs, proposals, reqs, tracked, sync_status, stage_history, delivered>>
    ELSE /\ TotalLogs < MaxLogs
         /\ logs' = [logs EXCEPT ![lead_id] = @ + 1]
         /\ leads' = [leads EXCEPT ![lead_id].activity_count = @ + 1]
         /\ lastOp' = [op |-> "create_activity", lead |-> lead_id, code |-> 201,
                       activity_type |-> Get(data.activity_type, "Note"),
                       outcome |-> Get(data.outcome, ""),
                       before |-> leads[lead_id].status]
         /\ UNCHANGED <<emails, proposals, reqs, tracked, sync_status, stage_history, delivered>>

\* The two endpoints that log an activity given in the request body.
NextActivities ==
    \/ \E l \in LeadIds \cup {0} : \E data \in BodiesFor(l, LogBodies, BODY_CALL) :
            create_log(l, data)
    \/ \E lead_id \in LeadIds \cup {MaxLeads + 1} :
            \E data \in BodiesFor(lead_id, LogBodies, BODY_CALL) :
                create_activity(lead_id, data)
    \/ create_activity(0, BODY_CALL)

SpecActivities == Init /\ [][NextActivities]_vars

(***************************************************************************)
(* Strings: str.lower(), str.startswith(), the `in` substring test.        *)
(***************************************************************************)
UPPER == << "A", "B", "C", "D", "E", "F", "G", "H", "I", "J", "K", "L", "M",
            "N", "O", "P", "Q", "R", "S", "T", "U", "V", "W", "X", "Y", "Z" >>
LOWER == << "a", "b", "c", "d", "e", "f", "g", "h", "i", "j", "k", "l", "m",
            "n", "o", "p", "q", "r", "s", "t", "u", "v", "w", "x", "y", "z" >>

LowerChar(c) ==
    IF \E i \in 1..Len(UPPER) : UPPER[i] = c
    THEN LOWER[CHOOSE i \in 1..Len(UPPER) : UPPER[i] = c]
    ELSE c

RECURSIVE Lower(_)
Lower(str) ==
    IF str = << >> THEN << >>
    ELSE << LowerChar(Head(str)) >> \o Lower(Tail(str))

StartsWith(str, prefix) ==
    Len(str) >= Len(prefix) /\ SubSeq(str, 1, Len(prefix)) = prefix

\* sub in str
Contains(sub, str) ==
    \E i \in 0..(Len(str) - Len(sub)) : SubSeq(str, i + 1, i + Len(sub)) = sub

\* x or ""
OrEmpty(str) == IF str = NONE_STR THEN << >> ELSE str

\* Text whose content no code inspects but whose length matters (a message's
\* bodyPreview) is run-length encoded: a sequence of runs [ch, n], n >= 1
\* copies of character ch, adjacent runs of different characters.  NONE_TEXT
\* is None where such a text is expected.
NONE_TEXT == << [ch |-> "NULL", n |-> 0] >>

\* len(text)
RECURSIVE TextLen(_)
TextLen(text) ==
    IF text = << >> THEN 0 ELSE Head(text).n + TextLen(Tail(text))

\* text[:k]
RECURSIVE TextSlice(_, _)
TextSlice(text, k) ==
    IF text = << >> \/ k <= 0 THEN << >>
    ELSE IF Head(text).n <= k
         THEN << Head(text) >> \o TextSlice(Tail(text), k - Head(text).n)
         ELSE << [ch |-> Head(text).ch, n |-> k] >>

RE_PREFIX == << "r", "e", ":" >>
SUBJ_HI == << "H", "i" >>
SUBJ_PROPOSAL == << "P", "r", "o", "p" >>

(***************************************************************************)
(* The reply test of check_email_replies, for one inbox message and one    *)
(* sent email.  A message is [sender, subject, receivedDateTime] (and, in  *)
(* an inbox batch, bodyPreview): sender                                    *)
(* is from.emailAddress.address ("" when a key on the way is absent,       *)
(* NONE_STR when "from" is null); subject is NONE_STR when it is null.     *)
(* The result is "reply", "no", or "raise" for the AttributeError that     *)
(* None.get / None.lower raise; `and` short-circuits left to right.        *)
(***************************************************************************)
\* Seeded faults of the test.
is_reply_sender_case_sensitive(msg, sent_email) ==
    IF msg.sender = NONE_STR THEN "raise"
    ELSE LET recipient == Lower(OrEmpty(sent_email.recipient_email))
             original_subject == Lower(OrEmpty(sent_email.subject))
         IN  IF recipient = << >> \/ msg.sender /= recipient THEN "no"
             ELSE IF msg.subject = NONE_STR THEN "raise"
             ELSE IF /\ StartsWith(Lower(msg.subject), RE_PREFIX)
                     /\ Contains(original_subject, Lower(msg.subject))
                  THEN "reply" ELSE "no"

is_reply(msg, sent_email) ==
    IF msg.sender = NONE_STR THEN "raise"
    ELSE LET msg_from == Lower(msg.sender)
             recipient == Lower(OrEmpty(sent_email.recipient_email))
             original_subject == Lower(OrEmpty(sent_email.subject))
         IN  IF recipient = << >> \/ msg_from /= recipient THEN "no"
             ELSE IF msg.subject = NONE_STR THEN "raise"
             ELSE IF /\ StartsWith(Lower(msg.subject), RE_PREFIX)
                     /\ Contains(original_subject, Lower(msg.subject))
                  THEN "reply" ELSE "no"

\* A GeneratedEmail row.  reply_snippet is a Text (below), None at creation.
EmailRow(lead_id, recipient_email, subject, status, reply_status) ==
    [lead_id |-> lead_id, recipient_email |-> recipient_email,
     subject |-> subject, status |-> status, reply_status |-> reply_status,
     sent_at |-> IF status = "sent" THEN "t0" ELSE NULL,
     replied_at |-> NULL, reply_snippet |-> NONE_TEXT]

\* --- is_reply applied to one (message, sent email) pair -------------------
\* Sent emails as the creation handlers can leave them: queue_email_for_review
\* requires a recipient and a subject, generate_email_for_lead stores no
\* recipient and may store an empty subject.
ProbeSenders == {ADDR_A, ADDR_A_UPPER, ADDR_B, << >>, NONE_STR}
ProbeSubjects ==
    { << "R", "E", ":", "H", "i" >>, << "r", "e", ":", " ", "h", "i", "!" >>,
      << "H", "i" >>, << "F", "w", "R", "e", ":", "H", "i" >>,
      << "R", "e", ":" >>, << "R", "e", ":", "Y", "o" >>, << >>, NONE_STR }
ProbeMessages ==
    [sender : ProbeSenders, subject : ProbeSubjects, receivedDateTime : {NULL}]

InitMatch ==
    /\ leads \in [LeadIds -> LeadRows]
    /\ emails \in { << EmailRow(0, r, sj, "sent", "no_reply") >> :
                        r \in {ADDR_A, ADDR_A_UPPER, NONE_STR},
                        sj \in {SUBJ_HI, << >>} }
    /\ logs = [l \in 0..MaxLeads |-> 0]
    /\ proposals = [p \in 0..MaxLeads |-> [lead_id |-> p, status |-> "draft"]]
    /\ tracked = << >>
    /\ sync_status = NO_SYNC_STATUS
    /\ reqs = [r \in ReqIds |-> [pc |-> "idle"]]
    /\ stage_history = << >>
    /\ delivered = delivered_for(emails)
    /\ lastOp = [op |-> "none"]

is_reply_call(e, msg) ==
    /\ lastOp' = [op |-> "is_reply", email |-> e, msg |-> msg,
                  result |-> is_reply(msg, emails[e])]
    /\ UNCHANGED <<leads, emails, logs, proposals, reqs, tracked, sync_status, stage_history, delivered>>

NextMatch == \E e \in DOMAIN emails, msg \in ProbeMessages : is_reply_call(e, msg)

SpecMatch == InitMatch /\ [][NextMatch]_vars

(***************************************************************************)
(* Generated emails: creation, review, send.                               *)
(***************************************************************************)
\* session.query(Lead).filter_by(email=address).first(): the id of the lead
\* whose email column equals the address exactly, 0 when there is none
\* (several matching rows: the one with the lowest id).
lead_by_email(lead_rows, address) ==
    LET found == {l \in LeadIds : lead_rows[l].email = address}
    IN  IF found = {} THEN 0
        ELSE CHOOSE l \in found : \A k \in found : l <= k

\* POST /api/emails/queue: `to` and `subject` are required; a body without
\* lead_id gets the lead whose email equals `to`.
queue_email_for_review(to_email, subject, lead_id) ==
    IF OrEmpty(to_email) = << >> \/ OrEmpty(subject) = << >>
    THEN /\ lastOp' = [op |-> "queue_email_for_review", code |-> 400]
         /\ UNCHANGED <<leads, emails, logs, proposals, reqs, tracked, sync_status, stage_history, delivered>>
    ELSE /\ Len(emails) < MaxEmails
         /\ emails' = Append(emails,
                EmailRow(IF lead_id = 0 THEN lead_by_email(leads, to_email)
                         ELSE lead_id,
                         to_email, subject, "pending_review", "no_reply"))
         /\ lastOp' = [op |-> "queue_email_for_review", code |-> 201]
         /\ UNCHANGED <<leads, logs, proposals, reqs, tracked, sync_status, stage_history, delivered>>

\* POST /api/leads/<id>/generate-email: no recipient_email is stored; the
\* subject is the template's, or "Introduction - <business_name>".
generate_email_for_lead(l, subject) ==
    IF l \notin LeadIds
    THEN /\ lastOp' = [op |-> "generate_email_for_lead", code |-> 404]
         /\ UNCHANGED <<leads, emails, logs, proposals, reqs, tracked, sync_status, stage_history, delivered>>
    ELSE /\ Len(emails) < MaxEmails
         /\ emails' = Append(emails,
                EmailRow(l, NONE_STR, subject, "pending_review", "no_reply"))
         /\ lastOp' = [op |-> "generate_email_for_lead", code |-> 201]
         /\ UNCHANGED <<leads, logs, proposals, reqs, tracked, sync_status, stage_history, delivered>>

\* PUT /api/emails/<id>/approve and /reject: no check of the current status.
review_email(op, e, status) ==
    IF e \notin DOMAIN emails
    THEN /\ lastOp' = [op |-> op, email |-> e, code |-> 404]
         /\ UNCHANGED <<leads, emails, logs, proposals, reqs, tracked, sync_status, stage_history, delivered>>
    ELSE /\ emails' = [emails EXCEPT ![e].status = status]
         /\ lastOp' = [op |-> op, email |-> e, code |-> 200]
         /\ UNCHANGED <<leads, logs, proposals, reqs, tracked, sync_status, stage_history, delivered>>

approve_email(e) == review_email("approve_email", e, "approved")

reject_email(e) == review_email("reject_email", e, "rejected")

\* The Microsoft token step shared by send_email and check_email_replies:
\* "ok" (a usable token, refreshed if it had expired), "not_connected" (no
\* token row: 401) or "refresh_failed" (401).
AuthOutcomes == {"ok", "not_connected", "refresh_failed"}

\* email.recipient_email or (email.lead.email if email.lead else None)
send_to_email(email, lead_rows) ==
    IF OrEmpty(email.recipient_email) /= << >> THEN email.recipient_email
    ELSE IF email.lead_id \in LeadIds THEN lead_rows[email.lead_id].email
    ELSE NONE_STR

\* Seeded fault: the send step without the lookup by recipient address.
sent_lead_id_no_link(email, to_email, lead_rows) == email.lead_id

\* The lead of an email that was sent: an email without a lead gets the lead
\* whose email equals the address it was sent to, when there is one.
sent_lead_id(email, to_email, lead_rows) ==
    IF email.lead_id = 0 THEN lead_by_email(lead_rows, to_email)
    ELSE email.lead_id

\* Seeded fault: every answer of the provider counts as a sent message.
send_accepted_any_answer(status_code) == TRUE

\* The provider accepted the message: `response.status_code == 202`.
send_accepted(status_code) == status_code = 202

\* POST /api/emails/<id>/send.  status_code is the provider's answer to
\* sendMail.  The message-id lookup after a 202 stores only
\* microsoft_message_id, which nothing modelled reads.
send_email(e, auth, status_code) ==
    LET fail(code) ==
            /\ lastOp' = [op |-> "send_email", email |-> e, code |-> code,
                          auth |-> auth, status_code |-> status_code,
                          advanced |-> FALSE, linked |-> FALSE]
            /\ UNCHANGED <<leads, emails, logs, proposals, reqs, tracked, sync_status, stage_history, delivered>>
    IN
    IF e \notin DOMAIN emails THEN fail(404)
    ELSE IF emails[e].status \notin {"approved", "pending_review"} THEN fail(400)
    ELSE IF OrEmpty(send_to_email(emails[e], leads)) = << >> THEN fail(400)
    ELSE IF auth /= "ok" THEN fail(401)
    ELSE IF ~send_accepted(status_code) THEN fail(500)
    ELSE LET to_email == send_to_email(emails[e], leads)
             lead_id == sent_lead_id(emails[e], to_email, leads)
         IN  /\ TotalLogs < MaxLogs
             /\ delivered' = [delivered EXCEPT ![e] = @ + 1]
             /\ emails' = [emails EXCEPT ![e].status = "sent",
                                          ![e].sent_at = "now",
                                          ![e].reply_status = "no_reply",
                                          ![e].lead_id = lead_id]
             /\ logs' = [logs EXCEPT ![lead_id] = @ + 1]
             /\ leads' = IF lead_id = 0 THEN leads
                         ELSE [leads EXCEPT
                                 ![lead_id].activity_count = @ + 1,
                                 ![lead_id].status =
                                     advance_lead_status(@, "Attempted")]
             /\ lastOp' = [op |-> "send_email", email |-> e, code |-> 200,
                           auth |-> auth, status_code |-> status_code,
                           advanced |-> leads' /= leads
                                        /\ leads'[lead_id].status
                                               /= leads[lead_id].status,
                           linked |-> lead_id /= emails[e].lead_id]
             /\ UNCHANGED <<proposals, reqs, tracked, sync_status, stage_history>>

\* Seeded fault: the checks of queue_proposal_email without the address check.
proposal_lead_error_no_address_check(proposal, lead_rows) ==
    IF proposal.lead_id \notin LeadIds THEN 400 ELSE 0

\* The two checks on the proposal's lead: 400 without a lead, 400 when the
\* lead has no email address, 0 when the request goes on.
proposal_lead_error(proposal, lead_rows) ==
    IF proposal.lead_id \notin LeadIds THEN 400
    ELSE IF OrEmpty(lead_rows[proposal.lead_id].email) = << >> THEN 400
    ELSE 0

\* POST /api/proposals/<id>/queue-email.  The HTML rendered from the
\* proposal's configuration is stored and read by nothing modelled.
queue_proposal_email(p) ==
    LET fail(code) ==
            /\ lastOp' = [op |-> "queue_proposal_email", proposal |-> p,
                          code |-> code, advanced |-> FALSE]
            /\ UNCHANGED <<leads, emails, logs, proposals, reqs, tracked, sync_status, stage_history, delivered>>
    IN
    IF p \notin DOMAIN proposals THEN fail(404)
    ELSE IF proposal_lead_error(proposals[p], leads) /= 0
         THEN fail(proposal_lead_error(proposals[p], leads))
    ELSE LET l == proposals[p].lead_id
         IN  /\ Len(emails) < MaxEmails
             /\ emails' = Append(emails,
                    EmailRow(l, leads[l].email, SUBJ_PROPOSAL,
                             "pending_review", "no_reply"))
             /\ proposals' = [proposals EXCEPT ![p].status = "pending_review"]
             /\ leads' = [leads EXCEPT
                    ![l].status = advance_lead_status(@, "Proposal Sent")]
             /\ lastOp' = [op |-> "queue_proposal_email", proposal |-> p,
                           code |-> 200,
                           advanced |-> leads'[l].status /= leads[l].status]
             /\ UNCHANGED <<logs, reqs, tracked, sync_status, stage_history, delivered>>

(***************************************************************************)
(* POST /api/emails/check-replies.                                         *)
(***************************************************************************)
\* Seeded fault: the query without its reply_status filter.
awaiting_reply_any_sent(email) == email.status = "sent"

\* The sent_emails query: status == "sent" and reply_status IN ('no_reply',
\* NULL).  In SQL the NULL member of an IN list matches no row.
awaiting_reply(email) ==
    email.status = "sent" /\ email.reply_status = "no_reply"

\* (msg.get("bodyPreview") or "")[:500]
SNIPPET_LEN == 500

reply_snippet_of(msg) ==
    TextSlice(IF msg.bodyPreview = NONE_TEXT THEN << >> ELSE msg.bodyPreview,
              SNIPPET_LEN)

\* Seeded fault: the inner loop without its break (the last stop wins).
first_stop_no_break(inbox_messages, sent_email) ==
    LET stops == {i \in 1..Len(inbox_messages) :
                     is_reply(inbox_messages[i], sent_email) /= "no"}
    IN  IF stops = {} THEN 0
        ELSE CHOOSE i \in stops : \A k \in stops : i >= k

\* Index of the first message of the batch at which the inner loop stops for
\* this sent email (a reply, or an exception); 0 when it runs to the end.
first_stop(inbox_messages, sent_email) ==
    LET stops == {i \in 1..Len(inbox_messages) :
                     is_reply(inbox_messages[i], sent_email) /= "no"}
    IN  IF stops = {} THEN 0
        ELSE CHOOSE i \in stops : \A k \in stops : i <= k

\* Seeded fault: the reply step without the lookup by recipient address.
reply_lead_id_no_link(sent_email, lead_rows) == sent_email.lead_id

\* The lead of a replied email: an email without a lead and with a recipient
\* gets the lead whose email equals the recipient, when there is one.
reply_lead_id(sent_email, lead_rows) ==
    IF sent_email.lead_id = 0 /\ OrEmpty(sent_email.recipient_email) /= << >>
    THEN lead_by_email(lead_rows, sent_email.recipient_email)
    ELSE sent_email.lead_id

\* One iteration of `for sent_email in sent_emails`, on the session's state
\* st = [emails, leads, updated, raised].
scan_sent_email(st, e, inbox_messages) ==
    LET sent_email == st.emails[e]
        i == first_stop(inbox_messages, sent_email)
    IN  IF i = 0 THEN st
        ELSE IF is_reply(inbox_messages[i], sent_email) = "raise"
        THEN [st EXCEPT !.raised = TRUE]
        ELSE LET msg == inbox_messages[i]
                 lead_id == reply_lead_id(sent_email, st.leads)
             IN  [emails |-> [st.emails EXCEPT
                        ![e].reply_status = "replied",
                        ![e].replied_at =
                            IF msg.receivedDateTime /= NULL
                            THEN msg.receivedDateTime ELSE "now",
                        ![e].reply_snippet = reply_snippet_of(msg),
                        ![e].lead_id = lead_id],
                  leads |-> IF lead_id \in LeadIds
                            THEN [st.leads EXCEPT ![lead_id].status =
                                      advance_lead_status(@, "Connected")]
                            ELSE st.leads,
                  updated |-> st.updated + 1,
                  raised |-> FALSE]

\* The outer loop over the rows of the query, in id order, from row e on; an
\* exception ends it.
RECURSIVE scan_from(_, _, _)
scan_from(st, e, inbox_messages) ==
    IF e > Len(st.emails) \/ st.raised THEN st
    ELSE scan_from(IF awaiting_reply(st.emails[e])
                   THEN scan_sent_email(st, e, inbox_messages) ELSE st,
                   e + 1, inbox_messages)

\* Seeded fault: the inner except commits what the run changed so far.
inbox_err_result_commits(db, st) == st

\* What a run that raised leaves in the database: the inner except returns
\* 500 without a commit and the session is closed, so the rows are the ones
\* read (db), not the session's (st).
inbox_err_result(db, st) == db

\* The handler.  inbox is the provider's answer to the Inbox query:
\* [status_code, value].
check_email_replies(auth, inbox) ==
    LET done(code, updated) ==
            /\ lastOp' = [op |-> "check_email_replies", code |-> code,
                          inbox |-> inbox, updated |-> updated,
                          advanced |-> FALSE, linked |-> {},
                          repeat |-> /\ lastOp.op = "check_email_replies"
                                     /\ lastOp.inbox = inbox]
            /\ UNCHANGED <<leads, emails, logs, proposals, reqs, tracked, sync_status, stage_history, delivered>>
    IN
    IF auth /= "ok" THEN done(401, 0)
    ELSE IF \A e \in DOMAIN emails : ~awaiting_reply(emails[e]) THEN done(200, 0)
    ELSE IF inbox.status_code /= 200 THEN done(500, 0)
    ELSE LET st == scan_from([emails |-> emails, leads |-> leads,
                              updated |-> 0, raised |-> FALSE],
                             1, inbox.value)
         IN  IF st.raised
             THEN LET kept == inbox_err_result([emails |-> emails, leads |-> leads], st)
                  IN  /\ emails' = kept.emails
                      /\ leads' = kept.leads
                      /\ lastOp' = [op |-> "check_email_replies", code |-> 500,
                                    inbox |-> inbox, updated |-> 0,
                                    advanced |-> FALSE, linked |-> {},
                                    repeat |-> /\ lastOp.op = "check_email_replies"
                                               /\ lastOp.inbox = inbox]
                      /\ UNCHANGED <<logs, proposals, reqs, tracked, sync_status, stage_history, delivered>>
             ELSE /\ emails' = st.emails
                  /\ leads' = st.leads
                  /\ lastOp' = [op |-> "check_email_replies", code |-> 200,
                                inbox |-> inbox, updated |-> st.updated,
                                advanced |-> \E l \in LeadIds :
                                    st.leads[l].status /= leads[l].status,
                                linked |-> {e \in DOMAIN emails :
                                    st.emails[e].lead_id /= emails[e].lead_id},
                                repeat |-> /\ lastOp.op = "check_email_replies"
                                           /\ lastOp.inbox = inbox]
                  /\ UNCHANGED <<logs, proposals, reqs, tracked, sync_status, stage_history, delivered>>

\* Inbox messages the provider returns in the model's runs.
MSG_REPLY_T1 ==
    [sender |-> ADDR_A_UPPER, subject |-> << "R", "E", ":", "H", "i" >>,
     receivedDateTime |-> "t1", bodyPreview |-> << [ch |-> "o", n |-> 1], [ch |-> "k", n |-> 1] >>]
MSG_REPLY_NO_DATE ==
    [sender |-> ADDR_A, subject |-> << "r", "e", ":", "h", "i", "!" >>,
     receivedDateTime |-> NULL, bodyPreview |-> NONE_TEXT]
MSG_OTHER_SENDER ==
    [sender |-> ADDR_B, subject |-> << "R", "E", ":", "H", "i" >>,
     receivedDateTime |-> "t2", bodyPreview |-> << [ch |-> "n", n |-> 2] >>]
MSG_NULL_SUBJECT ==
    [sender |-> ADDR_A, subject |-> NONE_STR, receivedDateTime |-> "t2",
     bodyPreview |-> << >>]

InboxMessages ==
    {MSG_REPLY_T1, MSG_REPLY_NO_DATE, MSG_OTHER_SENDER, MSG_NULL_SUBJECT}

RECURSIVE SeqsUpTo(_, _)
SeqsUpTo(S, n) ==
    IF n = 0 THEN {<< >>}
    ELSE LET shorter == SeqsUpTo(S, n - 1)
         IN  shorter \cup {Append(q, x) : q \in shorter, x \in S}

InboxResponses ==
    {[status_code |-> 200, value |-> v] : v \in SeqsUpTo(InboxMessages, MaxInbox)}
        \cup {[status_code |-> 500, value |-> << >>]}

(***************************************************************************)
(* The API, one request at a time.                                         *)
(***************************************************************************)
LogBodySamples ==
    { [activity_type |-> "Call", outcome |-> "Connected"], BODY_CALL,
      [activity_type |-> "Email", outcome |-> MISSING],
      [activity_type |-> "Meeting", outcome |-> MISSING],
      [activity_type |-> "Note", outcome |-> MISSING] }

\* The operations that invoke the rule, with the operations that create and
\* review the emails they work on and the update that clears a lead's address.
Next ==
    \/ \E l \in LeadIds \cup {0} : \E data \in BodiesFor(l, LogBodySamples, BODY_CALL) :
            quick_log_activity(l, data)
    \/ \E l \in LeadIds \cup {0} : \E data \in BodiesFor(l, LogBodySamples, BODY_CALL) :
            create_log(l, data)
    \/ \E l \in LeadIds, data \in EmailBodies : update_lead(l, data)
    \/ \E to_email \in {ADDR_A, ADDR_A_UPPER, NONE_STR}, lead_id \in LeadIds \cup {0} :
            queue_email_for_review(to_email, SUBJ_HI, lead_id)
    \/ \E l \in LeadIds \cup {0} : generate_email_for_lead(l, SUBJ_HI)
    \/ \E e \in 1..MaxEmails : approve_email(e)
    \/ \E e \in 1..MaxEmails : reject_email(e)
    \/ \E e \in 1..MaxEmails, auth \in AuthOutcomes :
            \E status_code \in (IF auth = "ok" THEN {202, 400} ELSE {400}) :
                send_email(e, auth, status_code)
    \/ \E auth \in AuthOutcomes :
            \E inbox \in (IF auth = "ok" THEN InboxResponses
                          ELSE {[status_code |-> 500, value |-> << >>]}) :
                check_email_replies(auth, inbox)
    \/ \E p \in 0..(MaxLeads + 1) : queue_proposal_email(p)

Spec == Init /\ [][Next]_vars

(***************************************************************************)
(* The life of a generated email: creation, review, send, with the update  *)
(* that clears or restores a lead's address.                               *)
(***************************************************************************)
NextEmails ==
    \/ \E l \in LeadIds, data \in EmailBodies : update_lead(l, data)
    \/ \E to_email \in {ADDR_A, ADDR_A_UPPER, NONE_STR}, lead_id \in LeadIds \cup {0} :
            queue_email_for_review(to_email, SUBJ_HI, lead_id)
    \/ \E l \in LeadIds \cup {0} : generate_email_for_lead(l, SUBJ_HI)
    \/ \E e \in 1..MaxEmails : approve_email(e)
    \/ \E e \in 1..MaxEmails : reject_email(e)
    \/ \E e \in 1..MaxEmails, auth \in AuthOutcomes :
            \E status_code \in (IF auth = "ok" THEN {202, 400} ELSE {400}) :
                send_email(e, auth, status_code)
    \/ \E p \in 0..(MaxLeads + 1) : queue_proposal_email(p)

SpecEmails == Init /\ [][NextEmails]_vars

(***************************************************************************)
(* check-replies on its own, started from the sent emails the handlers     *)
(* above can leave: a queued email keeps the recipient of its request and  *)
(* has the lead given, found at queue or send time, or none; an email      *)
(* generated for a lead has that lead and no recipient.                    *)
(***************************************************************************)
\* A preview longer than the snippet column.
BODY_LONG == << [ch |-> "x", n |-> SNIPPET_LEN - 1], [ch |-> "y", n |-> 2] >>

MSG_REPLY_LONG ==
    [sender |-> ADDR_A, subject |-> << "R", "e", ":", " ", "H", "I" >>,
     receivedDateTime |-> "t3", bodyPreview |-> BODY_LONG]

ReplyInboxResponses ==
    {[status_code |-> 200, value |-> v] :
        v \in SeqsUpTo(InboxMessages \cup {MSG_REPLY_LONG}, MaxInbox)}
        \cup {[status_code |-> 500, value |-> << >>]}

SentRows ==
    { EmailRow(l, r, SUBJ_HI, "sent", "no_reply") :
          l \in LeadIds \cup {0}, r \in {ADDR_A, ADDR_A_UPPER} }
        \cup { EmailRow(l, NONE_STR, SUBJ_HI, "sent", "no_reply") : l \in LeadIds }

InitReplies ==
    /\ leads \in [LeadIds -> LeadRows]
    /\ emails \in [1..MaxEmails -> SentRows]
    /\ logs = [l \in 0..MaxLeads |-> 0]
    /\ proposals = [p \in 0..MaxLeads |-> [lead_id |-> p, status |-> "draft"]]
    /\ tracked = << >>
    /\ sync_status = NO_SYNC_STATUS
    /\ reqs = [r \in ReqIds |-> [pc |-> "idle"]]
    /\ stage_history = << >>
    /\ delivered = delivered_for(emails)
    /\ lastOp = [op |-> "none"]

NextReplies ==
    \E auth \in AuthOutcomes :
        \E inbox \in (IF auth = "ok" THEN ReplyInboxResponses
                      ELSE {[status_code |-> 500, value |-> << >>]}) :
            check_email_replies(auth, inbox)

SpecReplies == InitReplies /\ [][NextReplies]_vars

(***************************************************************************)
(* check-replies over several sent emails (SpecRepliesPair): one more sent *)
(* email than MaxEmails, all to the same address, so that a run can match  *)
(* one email and raise on a later one.                                     *)
(***************************************************************************)
PairRows ==
    { EmailRow(l, ADDR_A, sj, "sent", "no_reply") :
          l \in LeadIds \cup {0}, sj \in {SUBJ_HI, SUBJ_PROPOSAL} }

PairInboxResponses ==
    {[status_code |-> 200, value |-> v] :
        v \in SeqsUpTo({MSG_REPLY_T1, MSG_NULL_SUBJECT, MSG_OTHER_SENDER}, MaxInbox)}
        \cup {[status_code |-> 500, value |-> << >>]}

InitRepliesPair ==
    /\ leads \in [LeadIds -> LeadRows]
    /\ emails \in [1..(MaxEmails + 1) -> PairRows]
    /\ logs = [l \in 0..MaxLeads |-> 0]
    /\ proposals = [p \in 0..MaxLeads |-> [lead_id |-> p, status |-> "draft"]]
    /\ tracked = << >>
    /\ sync_status = NO_SYNC_STATUS
    /\ reqs = [r \in ReqIds |-> [pc |-> "idle"]]
    /\ stage_history = << >>
    /\ delivered = delivered_for(emails)
    /\ lastOp = [op |-> "none"]

NextRepliesPair ==
    \E auth \in AuthOutcomes :
        \E inbox \in (IF auth = "ok" THEN PairInboxResponses
                      ELSE {[status_code |-> 500, value |-> << >>]}) :
            check_email_replies(auth, inbox)

SpecRepliesPair == InitRepliesPair /\ [][NextRepliesPair]_vars

(***************************************************************************)
(* Mail tracking (src/api/microsoft_integration.py): the subject-line      *)
(* categories and categorize_email.                                        *)
(***************************************************************************)
\* OUTREACH_CATEGORIES, a dict: its items in insertion order.
OUTREACH_CATEGORIES ==
    <<
      [category |-> "introduction", keywords |-> <<
          << "i", "n", "t", "r", "o", "d", "u", "c", "t", "i", "o", "n" >>,
          << "i", "n", "t", "r", "o" >>,
          << "r", "e", "a", "c", "h", "i", "n", "g", " ", "o", "u", "t" >>,
          << "f", "i", "r", "s", "t", " ", "c", "o", "n", "t", "a", "c", "t" >>,
          << "n", "i", "c", "e", " ", "t", "o", " ", "m", "e", "e", "t" >>,
          << "i", "n", "t", "r", "o", "d", "u", "c", "i", "n", "g", " ", "m", "y", "s", "e", "l", "f" >>,
          << "l", "e", "t", " ", "m", "e", " ", "i", "n", "t", "r", "o", "d", "u", "c", "e" >> >>],
      [category |-> "follow_up", keywords |-> <<
          << "f", "o", "l", "l", "o", "w", " ", "u", "p" >>,
          << "f", "o", "l", "l", "o", "w", "i", "n", "g", " ", "u", "p" >>,
          << "c", "h", "e", "c", "k", "i", "n", "g", " ", "i", "n" >>,
          << "j", "u", "s", "t", " ", "w", "a", "n", "t", "e", "d", " ", "t", "o" >>,
          << "t", "o", "u", "c", "h", "i", "n", "g", " ", "b", "a", "s", "e" >>,
          << "c", "i", "r", "c", "l", "i", "n", "g", " ", "b", "a", "c", "k" >>,
          << "q", "u", "i", "c", "k", " ", "f", "o", "l", "l", "o", "w" >> >>],
      [category |-> "meeting_date", keywords |-> <<
          << "m", "e", "e", "t", "i", "n", "g", " ", "d", "a", "t", "e" >>,
          << "s", "c", "h", "e", "d", "u", "l", "e" >>,
          << "c", "a", "l", "e", "n", "d", "a", "r" >>,
          << "b", "o", "o", "k", " ", "a", " ", "t", "i", "m", "e" >>,
          << "a", "v", "a", "i", "l", "a", "b", "i", "l", "i", "t", "y" >>,
          << "l", "e", "t", "'", "s", " ", "m", "e", "e", "t" >>,
          << "m", "e", "e", "t", "i", "n", "g", " ", "r", "e", "q", "u", "e", "s", "t" >>,
          << "c", "a", "l", "l", " ", "s", "c", "h", "e", "d", "u", "l", "e", "d" >> >>],
      [category |-> "contract_deal", keywords |-> <<
          << "c", "o", "n", "t", "r", "a", "c", "t", " ", "d", "e", "a", "l" >>,
          << "p", "r", "o", "p", "o", "s", "a", "l" >>,
          << "a", "g", "r", "e", "e", "m", "e", "n", "t" >>,
          << "p", "r", "i", "c", "i", "n", "g" >>,
          << "q", "u", "o", "t", "e" >>,
          << "c", "o", "n", "t", "r", "a", "c", "t" >>,
          << "t", "e", "r", "m", "s" >>,
          << "o", "f", "f", "e", "r" >>,
          << "d", "e", "a", "l", " ", "t", "e", "r", "m", "s" >> >>],
      [category |-> "deal_closed", keywords |-> <<
          << "d", "e", "a", "l", " ", "c", "l", "o", "s", "e", "d" >>,
          << "w", "e", "l", "c", "o", "m", "e", " ", "a", "b", "o", "a", "r", "d" >>,
          << "s", "i", "g", "n", "e", "d" >>,
          << "c", "o", "n", "g", "r", "a", "t", "u", "l", "a", "t", "i", "o", "n", "s" >>,
          << "l", "o", "o", "k", "i", "n", "g", " ", "f", "o", "r", "w", "a", "r", "d" >>,
          << "t", "h", "a", "n", "k", " ", "y", "o", "u", " ", "f", "o", "r", " ", "c", "h", "o", "o", "s", "i", "n", "g" >>,
          << "w", "e", "l", "c", "o", "m", "e", " ", "t", "o" >> >>] >>

\* Indices of the categories one of whose keywords occurs in the text.
categories_in(text) ==
    {c \in 1..Len(OUTREACH_CATEGORIES) :
        \E k \in 1..Len(OUTREACH_CATEGORIES[c].keywords) :
            Contains(OUTREACH_CATEGORIES[c].keywords[k], text)}

\* Seeded faults of categorize_email: the last matching category instead of
\* the first; the keywords looked up in the subject as written.
categorize_email_last_category(subject) ==
    IF subject = NONE_STR \/ subject = << >> THEN NULL
    ELSE LET found == categories_in(Lower(subject))
         IN  IF found = {} THEN NULL
             ELSE OUTREACH_CATEGORIES[CHOOSE c \in found :
                                          \A d \in found : c >= d].category

categorize_email_case_sensitive(subject) ==
    IF subject = NONE_STR \/ subject = << >> THEN NULL
    ELSE LET found == categories_in(subject)
         IN  IF found = {} THEN NULL
             ELSE OUTREACH_CATEGORIES[CHOOSE c \in found :
                                          \A d \in found : c <= d].category

\* categorize_email(subject): the category of the first item with a keyword
\* in subject.lower(), None (NULL) for a falsy subject or when none matches.
categorize_email(subject) ==
    IF subject = NONE_STR \/ subject = << >> THEN NULL
    ELSE LET subject_lower == Lower(subject)
             found == categories_in(subject_lower)
         IN  IF found = {} THEN NULL
             ELSE OUTREACH_CATEGORIES[CHOOSE c \in found :
                                          \A d \in found : c <= d].category

\* --- categorize_email applied to one subject ------------------------------
\* Subjects are up to MaxFrags fragments put together; some fragments carry a
\* keyword, some make one only when joined ("Quo" + "te"), some carry none.
SubjectFragments ==
    { << "I", "n", "t", "r", "o" >>,
      << "P", "R", "O", "P", "O", "S", "A", "L" >>,
      << "F", "o", "l", "l", "o", "w", " ", "U", "p" >>,
      << "S", "c", "h", "e", "d", "u", "l", "e" >>,
      << "S", "I", "G", "N", "E", "D" >>,
      << "H", "a", "p", "p", "y", " ", "M", "o", "n", "d", "a", "y", "!" >>,
      << "Q", "u", "o" >>,
      << "t", "e" >>,
      << " " >>,
      << "R", "e", ":", " " >>,
      << "O", "f", "f", "e", "r" >> }

RECURSIVE SubjectsOf(_)
SubjectsOf(n) ==
    IF n = 0 THEN {<< >>}
    ELSE LET shorter == SubjectsOf(n - 1)
         IN  shorter \cup {q \o f : q \in shorter, f \in SubjectFragments}

ProbeSubjectLines == SubjectsOf(MaxFrags) \cup {NONE_STR}

InitCategorize ==
    /\ leads = [l \in LeadIds |-> [status |-> "Not Contacted", email |-> ADDR_A,
                                   activity_count |-> 0,
                                   pipeline_stage_id |-> 0,
                                   stage_entered_at |-> 0]]
    /\ emails = << >>
    /\ logs = [l \in 0..MaxLeads |-> 0]
    /\ proposals = [p \in 0..MaxLeads |-> [lead_id |-> p, status |-> "draft"]]
    /\ tracked = << >>
    /\ sync_status = NO_SYNC_STATUS
    /\ reqs = [r \in ReqIds |-> [pc |-> "idle"]]
    /\ stage_history = << >>
    /\ delivered = delivered_for(emails)
    /\ lastOp \in {[op |-> "input", subject |-> sj] : sj \in ProbeSubjectLines}

categorize_call ==
    /\ lastOp.op = "input"
    /\ lastOp' = [op |-> "categorize_email", subject |-> lastOp.subject,
                  result |-> categorize_email(lastOp.subject)]
    /\ UNCHANGED <<leads, emails, logs, proposals, reqs, tracked, sync_status, stage_history, delivered>>

NextCategorize == categorize_call

SpecCategorize == InitCategorize /\ [][NextCategorize]_vars


(***************************************************************************)
(* POST /api/emails/sync: the user's sent items are fetched, categorized   *)
(* and stored as TrackedEmail rows.  One user's token and status row are   *)
(* modelled.  A sent-items message is [id, subject, recipients]:           *)
(* recipients is the address of toRecipients[0], << >> for an empty list,  *)
(* MALFORMED for an entry the handler's subscripts raise on.               *)
(***************************************************************************)
MALFORMED == << "MALFORMED" >>

\* Lead.email.ilike(recipient between wildcards).first(): the first lead
\* whose address contains the recipient ignoring case, 0 when there is none
\* (a NULL address matches nothing; the addresses of the model hold no LIKE
\* wildcard).
lead_by_email_ilike(lead_rows, recipient_email) ==
    LET found == {l \in LeadIds :
                     /\ lead_rows[l].email /= NONE_STR
                     /\ Contains(Lower(recipient_email), Lower(lead_rows[l].email))}
    IN  IF found = {} THEN 0
        ELSE CHOOSE l \in found : \A k \in found : l <= k

\* Seeded fault: every fetched message is tracked, categorized or not.
should_track_everything(category) == TRUE

\* `if category:` -- only messages with a category are tracked.
should_track(category) == category /= NULL

\* Seeded fault: the loop without the look-up of the message id.
already_tracked_never(tracked_rows, msg_id) == FALSE

\* `existing`: a TrackedEmail row with this microsoft_message_id, among the
\* rows of the table and the ones the run has added (the query flushes them).
already_tracked(tracked_rows, msg_id) ==
    \E t \in DOMAIN tracked_rows : tracked_rows[t].microsoft_message_id = msg_id

\* One iteration of `for msg in messages`, on st = [tracked, synced, raised].
sync_message(st, msg, lead_rows) ==
    LET subject == msg.subject
        category == categorize_email(subject)
    IN  IF ~should_track(category) THEN st
        ELSE IF already_tracked(st.tracked, msg.id) THEN st
        ELSE IF msg.recipients = MALFORMED THEN [st EXCEPT !.raised = TRUE]
        ELSE [st EXCEPT
                !.tracked = Append(@,
                    [microsoft_message_id |-> msg.id,
                     subject |-> subject,
                     recipient_email |-> msg.recipients,
                     category |-> category,
                     lead_id |-> IF msg.recipients = << >> THEN 0
                                 ELSE lead_by_email_ilike(lead_rows, msg.recipients)]),
                !.synced = @ + 1]

\* The loop over the batch from message i on; an exception ends it.
RECURSIVE sync_from(_, _, _, _)
sync_from(st, i, messages, lead_rows) ==
    IF i > Len(messages) \/ st.raised THEN st
    ELSE sync_from(sync_message(st, messages[i], lead_rows), i + 1,
                   messages, lead_rows)

\* auth of a sync request: "ok", "not_authenticated" (no user in the web
\* session) or "not_connected" (no token row, or the token has expired).
SyncAuthOutcomes == {"ok", "not_authenticated", "not_connected"}

\* The handler.  response is the provider's answer: [status_code, value].
\* After an exception in the loop the handler sets the status row to error
\* and commits the session, with the rows added before the exception.
sync_emails(auth, response) ==
    LET repeat == /\ lastOp.op = "sync_emails"
                  /\ lastOp.code = 200
                  /\ lastOp.response = response
    IN
    IF auth /= "ok"
    THEN /\ lastOp' = [op |-> "sync_emails", code |-> 401, response |-> response,
                       emails_synced |-> 0, created |-> 0, repeat |-> repeat]
         /\ UNCHANGED <<leads, emails, logs, proposals, reqs, tracked, sync_status, stage_history, delivered>>
    ELSE IF response.status_code /= 200
    THEN /\ sync_status' = [sync_status EXCEPT !.exists = TRUE, !.status = "error"]
         /\ lastOp' = [op |-> "sync_emails", code |-> 500, response |-> response,
                       emails_synced |-> 0, created |-> 0, repeat |-> repeat]
         /\ UNCHANGED <<leads, emails, logs, proposals, reqs, tracked, stage_history, delivered>>
    ELSE LET st == sync_from([tracked |-> tracked, synced |-> 0, raised |-> FALSE],
                             1, response.value, leads)
         IN  /\ tracked' = st.tracked
             /\ sync_status' =
                    IF st.raised
                    THEN [sync_status EXCEPT !.exists = TRUE, !.status = "error"]
                    ELSE [exists |-> TRUE, status |-> "completed",
                          emails_synced |-> sync_status.emails_synced + st.synced]
             /\ lastOp' = [op |-> "sync_emails",
                           code |-> IF st.raised THEN 500 ELSE 200,
                           response |-> response,
                           emails_synced |-> IF st.raised THEN 0 ELSE st.synced,
                           created |-> Len(st.tracked) - Len(tracked),
                           repeat |-> repeat]
             /\ UNCHANGED <<leads, emails, logs, proposals, reqs, stage_history, delivered>>

\* Sent-items messages the provider returns in the model's runs.
SENT_INTRO ==
    [id |-> 1, subject |-> << "I", "n", "t", "r", "o" >>, recipients |-> ADDR_A_UPPER]
SENT_GREETING ==
    [id |-> 2, subject |-> << "H", "a", "p", "p", "y", " ", "M", "o", "n", "d", "a", "y", "!" >>, recipients |-> ADDR_A]
SENT_SIGNED_PROPOSAL ==
    [id |-> 3, subject |-> << "S", "I", "G", "N", "E", "D", " ", "P", "R", "O", "P", "O", "S", "A", "L" >>, recipients |-> << >>]
SENT_QUOTE_MALFORMED ==
    [id |-> 4, subject |-> << "Q", "u", "o", "t", "e" >>, recipients |-> MALFORMED]
SENT_NO_SUBJECT ==
    [id |-> 5, subject |-> NONE_STR, recipients |-> ADDR_B]

SentItems ==
    {SENT_INTRO, SENT_GREETING, SENT_SIGNED_PROPOSAL, SENT_QUOTE_MALFORMED,
     SENT_NO_SUBJECT}

SentItemsResponses ==
    {[status_code |-> 200, value |-> v] : v \in SeqsUpTo(SentItems, MaxBatch)}
        \cup {[status_code |-> 500, value |-> << >>]}

InitSync ==
    /\ leads \in [LeadIds -> [status : {"Not Contacted"}, email : {ADDR_A, NONE_STR},
                              activity_count : {0}, pipeline_stage_id : {0},
                              stage_entered_at : {0}]]
    /\ emails = << >>
    /\ logs = [l \in 0..MaxLeads |-> 0]
    /\ proposals = [p \in 0..MaxLeads |-> [lead_id |-> p, status |-> "draft"]]
    /\ tracked = << >>
    /\ sync_status = NO_SYNC_STATUS
    /\ reqs = [r \in ReqIds |-> [pc |-> "idle"]]
    /\ stage_history = << >>
    /\ delivered = delivered_for(emails)
    /\ lastOp = [op |-> "none"]

NextSync ==
    \E auth \in SyncAuthOutcomes :
        \E response \in (IF auth = "ok" THEN SentItemsResponses
                         ELSE {[status_code |-> 500, value |-> << >>]}) :
            sync_emails(auth, response)

SpecSync == InitSync /\ [][NextSync]_vars

(***************************************************************************)
(* Interleaved requests.  Every request runs in a session of its own       *)
(* (get_session); the handlers read the lead with a plain SELECT, decide   *)
(* in memory and write at commit, with no row lock and no version column.  *)
(* At commit the ORM writes the attributes the request assigned a new      *)
(* value to: activity_count always, status when the rule changed it.       *)
(***************************************************************************)
\* quick_log_activity up to the query that loads the lead.
quick_log_load(r, l, data) ==
    /\ reqs[r].pc = "idle"
    /\ reqs' = [reqs EXCEPT ![r] =
            [pc |-> "loaded", lead_id |-> l, data |-> data, lead |-> leads[l]]]
    /\ lastOp' = [op |-> "quick_log_load", req |-> r]
    /\ UNCHANGED <<leads, emails, logs, proposals, tracked, sync_status, stage_history, delivered>>

\* The rest of quick_log_activity, on the lead object loaded earlier.
quick_log_commit(r) ==
    /\ reqs[r].pc = "loaded"
    /\ LET l == reqs[r].lead_id
           loaded == reqs[r].lead
           proposed == quick_log_proposal(reqs[r].data)
           status == IF proposed = NULL THEN loaded.status
                     ELSE advance_lead_status(loaded.status, proposed)
       IN  /\ leads' = [leads EXCEPT
                  ![l].activity_count = loaded.activity_count + 1,
                  ![l].status = IF status /= loaded.status THEN status ELSE @]
           /\ logs' = [logs EXCEPT ![l] = @ + 1]
           /\ lastOp' = [op |-> "quick_log_commit", req |-> r,
                         proposed |-> proposed, before |-> leads[l].status]
    /\ reqs' = [reqs EXCEPT ![r] = [pc |-> "done"]]
    /\ UNCHANGED <<emails, proposals, tracked, sync_status, stage_history, delivered>>

NextRace ==
    \/ \E r \in ReqIds, l \in LeadIds, data \in LogBodySamples :
            quick_log_load(r, l, data)
    \/ \E r \in ReqIds : quick_log_commit(r)

SpecRace == Init /\ [][NextRace]_vars

(***************************************************************************)
(* One log request as its session sees it.  The handler loads the lead,    *)
(* adds the Log and changes the lead's attributes in the session (no       *)
(* query follows, so nothing is flushed), and ends with session.commit();  *)
(* when the commit raises (the flush is refused by the database) or an     *)
(* exception comes before it, `finally: session.close()` ends the          *)
(* transaction without writing.                                            *)
(***************************************************************************)
\* Seeded fault: a session that had flushed the Log row in a transaction of
\* its own before the request failed.
session_close_keeps_log(db, req) ==
    [db EXCEPT !.logs[req.lead_id] = @ + 1]

\* session.close() without a commit: the database keeps what it had.
session_close(db, req) == db

\* session.commit(): the Log row and the lead's changed attributes together.
session_commit(db, req) ==
    [leads |-> [db.leads EXCEPT
                    ![req.lead_id].activity_count = req.lead.activity_count,
                    ![req.lead_id].status = req.lead.status],
     logs |-> [db.logs EXCEPT ![req.lead_id] = @ + 1]]

\* create_log / quick_log_activity up to, not including, session.commit().
log_stage(r, op, l, data) ==
    /\ \A q \in ReqIds : reqs[q].pc = "idle"
    /\ TotalLogs < MaxLogs
    /\ LET proposed == IF op = "create_log" THEN create_log_proposal(data)
                       ELSE quick_log_proposal(data)
       IN  /\ reqs' = [reqs EXCEPT ![r] =
                  [pc |-> "staged", op |-> op, lead_id |-> l, data |-> data,
                   proposed |-> proposed,
                   lead |-> [leads[l] EXCEPT
                               !.activity_count = @ + 1,
                               !.status = IF proposed = NULL THEN @
                                          ELSE advance_lead_status(@, proposed)]]]
           /\ lastOp' = [op |-> "log_stage", req |-> r, lead |-> l,
                         proposed |-> proposed, before |-> leads[l].status]
    /\ UNCHANGED <<leads, emails, logs, proposals, tracked, sync_status, stage_history, delivered>>

\* The end of the request: the commit succeeds, or the request fails.
log_end(r, commit_ok) ==
    /\ reqs[r].pc = "staged"
    /\ LET db == [leads |-> leads, logs |-> logs]
           after == IF commit_ok THEN session_commit(db, reqs[r])
                    ELSE session_close(db, reqs[r])
       IN  /\ leads' = after.leads
           /\ logs' = after.logs
    /\ reqs' = [reqs EXCEPT ![r] = [pc |-> "idle"]]
    /\ lastOp' = [op |-> IF commit_ok THEN "log_commit" ELSE "log_rollback",
                  req |-> r, lead |-> reqs[r].lead_id,
                  proposed |-> reqs[r].proposed, before |-> leads[reqs[r].lead_id].status]
    /\ UNCHANGED <<emails, proposals, tracked, sync_status, stage_history, delivered>>

NextTxn ==
    \/ \E r \in ReqIds, op \in {"create_log", "quick_log_activity"},
           l \in LeadIds, data \in LogBodySamples :
            log_stage(r, op, l, data)
    \/ \E r \in ReqIds, commit_ok \in BOOLEAN : log_end(r, commit_ok)

SpecTxn == Init /\ [][NextTxn]_vars

(***************************************************************************)
(* Properties of the advancement rule (checked under SpecAdvance).         *)
(***************************************************************************)
\* lead.status or "Not Contacted"
StatusOrDefault(status) == IF status = NULL THEN "Not Contacted" ELSE status

\* C1: for a lead whose status is not terminal, advance_lead_status changes
\* the status if and only if index(proposed) > index(current) in the
\* canonical order (-1 outside the order, unset counts as Not Contacted),
\* and when it changes it, the new status is the proposed one.
C1_AdvancesIffForward ==
    (lastOp.op = "advance_lead_status" /\ lastOp.before \notin TERMINAL_STATUSES)
        => LET now == leads[lastOp.lead].status
               changed == now /= lastOp.before
           IN  /\ changed <=> (pipeline_index(lastOp.proposed)
                                   > pipeline_index(StatusOrDefault(lastOp.before)))
               /\ changed => now = lastOp.proposed

C1_Witness ==
    /\ lastOp.op = "advance_lead_status"
    /\ lastOp.before = "Attempted"
    /\ lastOp.proposed = "Connected"
    /\ leads[lastOp.lead].status = "Connected"

\* C2: for a lead whose status is Converted or Not Interested,
\* advance_lead_status leaves the status unchanged whatever is proposed.
C2_TerminalUntouched ==
    (lastOp.op = "advance_lead_status" /\ lastOp.before \in TERMINAL_STATUSES)
        => leads[lastOp.lead].status = lastOp.before

C2_Witness ==
    /\ lastOp.op = "advance_lead_status"
    /\ lastOp.before = "Not Interested"
    /\ lastOp.proposed = "Connected"
    /\ leads[lastOp.lead].status = "Not Interested"

\* C5: a second application of advance_lead_status with the same proposed
\* status, right after the first, leaves the lead as the first left it.
C5_Idempotent ==
    (lastOp.op = "advance_lead_status" /\ lastOp.repeat)
        => leads[lastOp.lead].status = lastOp.before

C5_Witness ==
    /\ lastOp.op = "advance_lead_status"
    /\ lastOp.repeat
    /\ lastOp.proposed = "Qualified Lead"
    /\ lastOp.before = "Qualified Lead"

(***************************************************************************)
(* Properties of the log handlers and of direct assignment (SpecLeads).    *)
(***************************************************************************)
LogOps == {"quick_log_activity", "create_log"}
DirectUpdateOps == {"update_lead", "quick_status_update", "bulk_update_leads"}

\* The status a lead has after the rule ran with `proposed`, as section 4.1
\* states it: terminal statuses are kept, otherwise a greater index wins.
RuleOutcome(before, proposed) ==
    IF /\ before \notin TERMINAL_STATUSES
       /\ pipeline_index(proposed) > pipeline_index(StatusOrDefault(before))
    THEN proposed ELSE before

\* C7: on /logs and /quick-log, Call with outcome Connected or Interested
\* proposes Connected, Call with any other outcome proposes Attempted, Email
\* proposes Attempted, Meeting proposes Connected; the lead's status after the
\* request is what the rule makes of that proposal.
C7_LogProposals ==
    (lastOp.op \in LogOps /\ lastOp.code = 200
        /\ lastOp.activity_type \in {"Call", "Email", "Meeting"})
        => LET expected ==
                   IF lastOp.activity_type = "Call"
                   THEN IF lastOp.outcome \in {"Connected", "Interested"}
                        THEN "Connected" ELSE "Attempted"
                   ELSE IF lastOp.activity_type = "Email" THEN "Attempted"
                   ELSE "Connected"
           IN  /\ lastOp.proposed = expected
               /\ leads[lastOp.lead].status = RuleOutcome(lastOp.before, expected)

C7_Witness ==
    /\ lastOp.op = "create_log" /\ lastOp.code = 200
    /\ lastOp.activity_type = "Call" /\ lastOp.outcome = "No Answer"
    /\ lastOp.before = "Not Contacted"
    /\ leads[lastOp.lead].status = "Attempted"

\* C8: a Note or Task logged through /logs or /quick-log does not invoke the
\* rule, and the lead's status after the request is its status before.
C8_NoteTaskKeepStatus ==
    (lastOp.op \in LogOps /\ lastOp.code = 200
        /\ lastOp.activity_type \in {"Note", "Task"})
        => /\ lastOp.proposed = NULL
           /\ leads[lastOp.lead].status = lastOp.before

C8_Witness ==
    /\ lastOp.op = "quick_log_activity" /\ lastOp.code = 200
    /\ lastOp.activity_type = "Note"
    /\ lastOp.before = "Not Contacted"
    /\ leads[lastOp.lead].status = "Not Contacted"
    /\ leads[lastOp.lead].activity_count = 1

\* C4: once a lead is Converted or Not Interested, only PUT /leads/<id>,
\* /quick-status and /bulk-update change its status; every other operation,
\* executing an automation rule included, leaves it unchanged.
C4_TerminalOnlyDirectEdits ==
    [][\A l \in LeadIds :
          (leads[l].status \in TERMINAL_STATUSES /\ lastOp'.op \notin DirectUpdateOps)
              => leads'[l].status = leads[l].status]_vars

(***************************************************************************)
(* Properties of the reply test (SpecMatch).                               *)
(***************************************************************************)
\* The three conditions of section 4.3 for message m and sent email s.
ThreeConditions(m, s) ==
    /\ Lower(m.sender) = Lower(OrEmpty(s.recipient_email))
    /\ StartsWith(Lower(m.subject), RE_PREFIX)
    /\ Contains(Lower(OrEmpty(s.subject)), Lower(m.subject))

RuleOps == {"quick_log_activity", "create_log", "send_email",
            "check_email_replies", "queue_proposal_email"}

\* C3: executed one at a time, no rule-invoking operation lowers the
\* canonical-order index of the status of a lead that is not terminal.
C3_RuleOpsNeverLower ==
    [][lastOp'.op \in RuleOps
          => \A l \in LeadIds :
                leads[l].status \notin TERMINAL_STATUSES
                    => pipeline_index(leads'[l].status)
                           >= pipeline_index(leads[l].status)]_vars

C3_Witness ==
    /\ lastOp.op = "check_email_replies"
    /\ lastOp.advanced
    /\ \E l \in LeadIds : leads[l].status = "Connected" /\ leads[l].activity_count = 1

\* C6: when rule-invoking requests for the same lead interleave, the lead's
\* committed status still never moves backward in the canonical order.
C6_NoBackwardUnderInterleaving ==
    [][\A l \in LeadIds :
          leads[l].status \notin TERMINAL_STATUSES
              => pipeline_index(leads'[l].status)
                     >= pipeline_index(leads[l].status)]_vars

\* C10: check-replies modifies only sent emails whose reply_status was
\* no_reply or null when the run started; a run right after another run with
\* the same inbox batch updates no email and changes no lead.
C10_OnlyAwaitingAndRerunIdle ==
    [][lastOp'.op = "check_email_replies"
          => /\ \A e \in DOMAIN emails :
                    emails'[e] /= emails[e]
                        => /\ emails[e].status = "sent"
                           /\ emails[e].reply_status \in {"no_reply", NULL}
             /\ lastOp'.repeat
                    => /\ lastOp'.updated = 0
                       /\ emails' = emails
                       /\ leads' = leads]_vars

C10_Witness ==
    /\ lastOp.op = "check_email_replies"
    /\ lastOp.repeat
    /\ lastOp.code = 200
    /\ lastOp.updated = 0
    /\ \E e \in DOMAIN emails :
          /\ emails[e].reply_status = "replied"
          /\ \E i \in 1..Len(lastOp.inbox.value) :
                is_reply(lastOp.inbox.value[i], emails[e]) = "reply"

(***************************************************************************)
(* Properties of check-replies on sent emails (SpecReplies).               *)
(***************************************************************************)
\* Message m of a batch matches sent email s (section 4.3, with the
\* non-empty recipient the code requires).
Matches(m, s) ==
    /\ m.sender /= NONE_STR /\ m.subject /= NONE_STR
    /\ OrEmpty(s.recipient_email) /= << >>
    /\ ThreeConditions(m, s)

\* text is the first characters of whole (both run-length encoded).
IsTextPrefix(text, whole) ==
    \/ text = << >>
    \/ /\ Len(text) <= Len(whole)
       /\ \A r \in 1..(Len(text) - 1) : text[r] = whole[r]
       /\ text[Len(text)].ch = whole[Len(text)].ch
       /\ text[Len(text)].n <= whole[Len(text)].n

\* C11: for each sent email, check-replies uses the first message of the
\* batch, in the provider's order, that matches it: replied_at and
\* reply_snippet come from that message (the snippet is the first 500
\* characters of its preview, all of it when it is shorter), whatever
\* matching messages follow it.
C11_FirstMatchOnly ==
    [][(lastOp'.op = "check_email_replies" /\ lastOp'.code = 200)
          => \A e \in DOMAIN emails :
                emails'[e] /= emails[e]
                    => LET batch == lastOp'.inbox.value
                           hits == {i \in 1..Len(batch) : Matches(batch[i], emails[e])}
                       IN  /\ hits /= {}
                           /\ LET first == CHOOSE i \in hits : \A k \in hits : i <= k
                                   preview == IF batch[first].bodyPreview = NONE_TEXT
                                              THEN << >>
                                              ELSE batch[first].bodyPreview
                                   snippet == emails'[e].reply_snippet
                               IN  /\ emails'[e].reply_status = "replied"
                                   /\ emails'[e].replied_at =
                                          (IF batch[first].receivedDateTime = NULL
                                           THEN "now"
                                           ELSE batch[first].receivedDateTime)
                                   /\ snippet /= NONE_TEXT
                                   /\ IsTextPrefix(snippet, preview)
                                   /\ TextLen(snippet) =
                                          (IF TextLen(preview) < 500
                                           THEN TextLen(preview) ELSE 500)]_vars

\* Two replies in one batch, the long one first: the email carries the first
\* one's date and the first 500 characters of its preview.
C11_Witness ==
    /\ lastOp.op = "check_email_replies" /\ lastOp.code = 200
    /\ lastOp.inbox.value = << MSG_REPLY_LONG, MSG_REPLY_T1 >>
    /\ \E e \in DOMAIN emails :
          /\ emails[e].reply_status = "replied"
          /\ emails[e].replied_at = "t3"
          /\ TextLen(emails[e].reply_snippet) = 500

\* C12: when check-replies matches a sent email that has no lead, and some
\* lead's stored email equals the recipient address exactly, the email is
\* linked to such a lead (otherwise its lead is unchanged); the rule is then
\* invoked with Connected on the email's lead: a lead below Connected
\* becomes Connected, a lead at Connected or later, or terminal, keeps its
\* status; leads of no matched email keep theirs.
C12_ReplyLinksAndConnects ==
    [][(lastOp'.op = "check_email_replies" /\ lastOp'.code = 200)
          => LET matched == {e \in DOMAIN emails : emails'[e] /= emails[e]}
                 same_address(e) ==
                     {l \in LeadIds : leads[l].email = emails[e].recipient_email}
             IN  /\ \A e \in matched :
                        IF emails[e].lead_id = 0 /\ same_address(e) /= {}
                        THEN emails'[e].lead_id \in same_address(e)
                        ELSE emails'[e].lead_id = emails[e].lead_id
                 /\ \A l \in LeadIds :
                        leads'[l].status =
                            IF \E e \in matched : emails'[e].lead_id = l
                            THEN RuleOutcome(leads[l].status, "Connected")
                            ELSE leads[l].status]_vars

\* A reply to an email without a lead, sent to the address of a lead that was
\* Not Contacted: the email now has that lead, and the lead is Connected.
C12_Witness ==
    /\ lastOp.op = "check_email_replies" /\ lastOp.code = 200
    /\ \E e \in lastOp.linked :
          /\ emails[e].reply_status = "replied"
          /\ emails[e].lead_id \in LeadIds
          /\ leads[emails[e].lead_id].email = emails[e].recipient_email
          /\ lastOp.advanced
          /\ leads[emails[e].lead_id].status = "Connected"

(***************************************************************************)
(* Properties of the generated emails' life (SpecEmails).                  *)
(***************************************************************************)
\* C13: when POST /emails/<id>/send gets the provider's 202, the email's
\* status becomes sent with reply_status no_reply; an email without a lead is
\* linked to a lead whose email equals the address it was sent to, when there
\* is one; and the email's lead gets the status the rule makes of Attempted,
\* every other lead keeping its status.
C13_SendMarksSentAndAttempts ==
    [][(lastOp'.op = "send_email" /\ lastOp'.code = 200)
          => LET e == lastOp'.email
                 to_email ==
                     IF OrEmpty(emails[e].recipient_email) /= << >>
                     THEN emails[e].recipient_email
                     ELSE leads[emails[e].lead_id].email
                 same_address == {l \in LeadIds : leads[l].email = to_email}
             IN  /\ emails'[e].status = "sent"
                 /\ emails'[e].reply_status = "no_reply"
                 /\ IF emails[e].lead_id = 0 /\ same_address /= {}
                    THEN emails'[e].lead_id \in same_address
                    ELSE emails'[e].lead_id = emails[e].lead_id
                 /\ \A l \in LeadIds :
                        leads'[l].status =
                            IF emails'[e].lead_id = l
                            THEN RuleOutcome(leads[l].status, "Attempted")
                            ELSE leads[l].status]_vars

\* An email queued without a lead, sent to the address of a lead: the email
\* is sent and linked, the lead has one activity and is Attempted.
C13_Witness ==
    /\ lastOp.op = "send_email" /\ lastOp.code = 200
    /\ lastOp.advanced /\ lastOp.linked
    /\ emails[lastOp.email].status = "sent"
    /\ emails[lastOp.email].reply_status = "no_reply"
    /\ emails[lastOp.email].lead_id \in LeadIds
    /\ leads[emails[lastOp.email].lead_id].status = "Attempted"
    /\ leads[emails[lastOp.email].lead_id].activity_count = 1

\* C14: under any sequence of queue, approve, reject and send requests an
\* email never leaves sent, a rejected email is never sent, and an email
\* reaches sent only from approved.
C14_LifecycleOnlyForward ==
    [][\A e \in DOMAIN emails :
          /\ emails[e].status = "sent" => emails'[e].status = "sent"
          /\ emails[e].status = "rejected" => emails'[e].status /= "sent"
          /\ (emails'[e].status = "sent" /\ emails[e].status /= "sent")
                => emails[e].status = "approved"]_vars

CategoryOrder ==
    << "introduction", "follow_up", "meeting_date", "contract_deal", "deal_closed" >>

KeywordsOf(category) ==
    LET c == CHOOSE d \in 1..Len(OUTREACH_CATEGORIES) :
                 OUTREACH_CATEGORIES[d].category = category
    IN  {OUTREACH_CATEGORIES[c].keywords[k] :
            k \in 1..Len(OUTREACH_CATEGORIES[c].keywords)}

\* Some keyword of the category is a substring of the lower-cased subject.
HasKeywordOf(category, subject) ==
    \E kw \in KeywordsOf(category) : Contains(kw, Lower(OrEmpty(subject)))

\* C16: for a subject that contains at least one keyword ignoring case,
\* categorize_email returns the first category, in the order introduction,
\* follow_up, meeting_date, contract_deal, deal_closed, one of whose keywords
\* is a substring of the lower-cased subject.
C16_FirstCategoryInOrder ==
    (lastOp.op = "categorize_email"
        /\ \E i \in 1..Len(CategoryOrder) : HasKeywordOf(CategoryOrder[i], lastOp.subject))
        => \E i \in 1..Len(CategoryOrder) :
              /\ lastOp.result = CategoryOrder[i]
              /\ HasKeywordOf(CategoryOrder[i], lastOp.subject)
              /\ \A j \in 1..(i - 1) : ~HasKeywordOf(CategoryOrder[j], lastOp.subject)

\* "SIGNEDPROPOSAL" has a deal_closed keyword before a contract_deal one:
\* the category is contract_deal, the one listed first.
C16_Witness ==
    /\ lastOp.op = "categorize_email"
    /\ lastOp.subject = << "S", "I", "G", "N", "E", "D",
                           "P", "R", "O", "P", "O", "S", "A", "L" >>
    /\ lastOp.result = "contract_deal"

\* C17: categorize_email returns no category if and only if the subject is
\* empty (or None) or no keyword of the taxonomy is a substring of the
\* lower-cased subject.
C17_NoneIffNoKeyword ==
    lastOp.op = "categorize_email"
        => (lastOp.result = NULL
                <=> \/ OrEmpty(lastOp.subject) = << >>
                    \/ \A i \in 1..Len(CategoryOrder) :
                          ~HasKeywordOf(CategoryOrder[i], lastOp.subject))

C17_Witness ==
    /\ lastOp.op = "categorize_email"
    /\ lastOp.subject = << "H", "a", "p", "p", "y", " ",
                           "M", "o", "n", "d", "a", "y", "!" >>
    /\ lastOp.result = NULL

(***************************************************************************)
(* Properties of the mail sync (SpecSync).                                 *)
(***************************************************************************)
\* C18: after any sequence of mail-sync runs, every stored tracked email has
\* one of the five categories, the one categorize_email gives its subject;
\* a sent-items message whose subject has no category is never stored.
C18_TrackedAreCategorized ==
    \A t \in DOMAIN tracked :
        /\ \E i \in 1..Len(CategoryOrder) : tracked[t].category = CategoryOrder[i]
        /\ tracked[t].category = categorize_email(tracked[t].subject)
        /\ \E i \in 1..Len(CategoryOrder) :
              HasKeywordOf(CategoryOrder[i], tracked[t].subject)

\* A batch with a greeting and an introduction was synced: one row, the
\* introduction's.
C18_Witness ==
    /\ lastOp.op = "sync_emails" /\ lastOp.code = 200
    /\ lastOp.response.value = << SENT_GREETING, SENT_INTRO >>
    /\ lastOp.emails_synced = 1
    /\ Len(tracked) = 1
    /\ tracked[1].microsoft_message_id = 1
    /\ tracked[1].category = "introduction"

(***************************************************************************)
(* Properties of one log request's transaction (SpecTxn).                  *)
(***************************************************************************)
\* C19: the activity log, the activity_count increment and the rule-driven
\* status change of one log request are committed together or not at all:
\* nothing is written before the commit, the commit writes all three, and a
\* request whose transaction does not commit leaves the lead and the logs
\* as they were.
C19_LogRequestAtomic ==
    [][/\ lastOp'.op \in {"log_stage", "log_rollback"}
            => (leads' = leads /\ logs' = logs)
       /\ lastOp'.op = "log_commit"
            => LET l == lastOp'.lead
               IN  /\ logs'[l] = logs[l] + 1
                   /\ leads'[l].activity_count = leads[l].activity_count + 1
                   /\ leads'[l].status =
                          IF lastOp'.proposed = NULL THEN leads[l].status
                          ELSE RuleOutcome(leads[l].status, lastOp'.proposed)]_vars

\* A request that would have moved a Not Contacted lead to Connected failed:
\* the lead is Not Contacted, with no activity and no log.
C19_Witness ==
    /\ lastOp.op = "log_rollback"
    /\ lastOp.proposed = "Connected"
    /\ lastOp.before = "Not Contacted"
    /\ leads[lastOp.lead].status = "Not Contacted"
    /\ leads[lastOp.lead].activity_count = 0
    /\ logs[lastOp.lead] = 0

(***************************************************************************)
(* Properties of POST /api/activities (SpecActivities).                    *)
(***************************************************************************)
\* C20: a Call, Email or Meeting activity created through POST
\* /api/activities leaves the lead with the status that the same activity
\* created through POST /leads/<id>/logs leaves it with: what the rule makes
\* of the advancement table's proposal.
C20_ActivitiesAdvanceLikeLogs ==
    (lastOp.op = "create_activity" /\ lastOp.code = 201
        /\ lastOp.activity_type \in {"Call", "Email", "Meeting"})
        => leads[lastOp.lead].status =
              RuleOutcome(lastOp.before,
                          create_log_proposal([activity_type |-> lastOp.activity_type,
                                               outcome |-> lastOp.outcome]))

(***************************************************************************)
(* Properties comparing the two log endpoints (SpecLeads).                 *)
(***************************************************************************)
\* The status a lead with status `before` has after a log request whose
\* chain proposes `proposed` (NULL: the chain calls nothing).
AfterProposal(before, proposed) ==
    IF proposed = NULL THEN before ELSE RuleOutcome(before, proposed)

\* C21: for the same lead state and the same request body, POST
\* /leads/<id>/logs and POST /leads/<id>/quick-log leave the lead with the
\* same status, also for a body without activity_type or without outcome:
\* after either request the lead has the status the other would have given.
C21_LogsAndQuickLogAgree ==
    (lastOp.op \in LogOps /\ lastOp.code = 200)
        => LET body == [activity_type |-> lastOp.activity_type,
                        outcome |-> lastOp.outcome]
           IN  /\ leads[lastOp.lead].status =
                      AfterProposal(lastOp.before, create_log_proposal(body))
               /\ leads[lastOp.lead].status =
                      AfterProposal(lastOp.before, quick_log_proposal(body))

(***************************************************************************)
(* More properties of the advancement rule (SpecAdvance).                  *)
(***************************************************************************)
\* C22: advance_lead_status never assigns a status outside the canonical
\* order: a proposed status that is not one of the seven canonical values
\* (Not Interested is none of them) leaves the lead unchanged, every status
\* the rule assigns is canonical, and no lead becomes Not Interested.
C22_OnlyCanonicalAssigned ==
    lastOp.op = "advance_lead_status"
        => LET now == leads[lastOp.lead].status
               canonical == {PIPELINE_ORDER[i] : i \in 1..Len(PIPELINE_ORDER)}
           IN  /\ lastOp.proposed \notin canonical => now = lastOp.before
               /\ now /= lastOp.before => now \in canonical
               /\ now = "Not Interested" => lastOp.before = "Not Interested"

\* Not Interested was proposed for a lead whose status is outside the order
\* (both have index -1): the lead keeps its status.
C22_Witness ==
    /\ lastOp.op = "advance_lead_status"
    /\ lastOp.proposed = "Not Interested"
    /\ lastOp.before = "Archived"
    /\ leads[lastOp.lead].status = "Archived"

(***************************************************************************)
(* Properties of check-replies on malformed input and on failure           *)
(* (SpecReplies).                                                          *)
(***************************************************************************)
\* C23: an inbox message with a missing or null sender or subject is skipped
\* as a non-match and does not keep the run from matching and saving: after
\* a run that fetched the inbox, every sent email that awaited a reply and
\* has a matching message in the batch is replied.
C23_MalformedMessagesSkipped ==
    [][(lastOp'.op = "check_email_replies" /\ lastOp'.code /= 401
            /\ lastOp'.inbox.status_code = 200)
          => \A e \in DOMAIN emails :
                (/\ emails[e].status = "sent"
                 /\ emails[e].reply_status = "no_reply"
                 /\ \E i \in 1..Len(lastOp'.inbox.value) :
                        Matches(lastOp'.inbox.value[i], emails[e]))
                    => emails'[e].reply_status = "replied"]_vars

(***************************************************************************)
(* Pipeline stages (SpecPipeline): POST /api/pipeline/leads/<id>/move next *)
(* to the advancement rule.                                                *)
(***************************************************************************)
MaxStages == 2
MaxClock == 2
MaxMoves == 2

\* Ids of the rows of dw_pipeline_stages; 0 is a body without stage_id.
StageIds == 1..MaxStages
\* Values of datetime.utcnow(); 0 is a NULL timestamp.
Times == 1..MaxClock

\* Seeded fault: a move that also maps the stage onto the status column.
moved_lead_sets_status(lead, new_stage_id, now) ==
    [lead EXCEPT !.pipeline_stage_id = new_stage_id,
                 !.stage_entered_at = now,
                 !.status = PIPELINE_ORDER[new_stage_id]]

\* The lead as move_lead_in_pipeline leaves it.
moved_lead(lead, new_stage_id, now) ==
    [lead EXCEPT !.pipeline_stage_id = new_stage_id,
                 !.stage_entered_at = now]

\* POST /api/pipeline/leads/<id>/move: a StageHistory row and the lead's
\* stage fields, in one commit.  to_stage_id is NOT NULL, so a body without
\* stage_id fails at the commit and the request ends with nothing persisted.
move_lead_in_pipeline(lead_id, new_stage_id, now) ==
    LET done(code) ==
            lastOp' = [op |-> "move_lead_in_pipeline", lead |-> lead_id,
                       code |-> code, stage_id |-> new_stage_id,
                       before |-> IF lead_id \in LeadIds
                                  THEN leads[lead_id].status ELSE NULL]
    IN
    IF lead_id \notin LeadIds
    THEN /\ done(404)
         /\ UNCHANGED <<leads, emails, logs, proposals, reqs, tracked, sync_status, stage_history, delivered>>
    ELSE IF new_stage_id = 0
    THEN /\ done(500)
         /\ UNCHANGED <<leads, emails, logs, proposals, reqs, tracked, sync_status, stage_history, delivered>>
    ELSE /\ Len(stage_history) < MaxMoves
         /\ stage_history' = Append(stage_history,
                [lead_id |-> lead_id,
                 from_stage_id |-> leads[lead_id].pipeline_stage_id,
                 to_stage_id |-> new_stage_id])
         /\ leads' = [leads EXCEPT
                        ![lead_id] = moved_lead(@, new_stage_id, now)]
         /\ done(200)
         /\ UNCHANGED <<emails, logs, proposals, reqs, tracked, sync_status, delivered>>

NextPipeline ==
    \/ \E l \in LeadIds \cup {0}, stage_id \in StageIds \cup {0}, now \in Times :
            move_lead_in_pipeline(l, stage_id, now)
    \/ \E l \in LeadIds, new_status \in Statuses : advance_call(l, new_status)

SpecPipeline == Init /\ [][NextPipeline]_vars

\* C24: pipeline_stage_id and status are independent.  A move never changes
\* a lead's status, and the advancement rule never changes a lead's
\* pipeline_stage_id or stage_entered_at.
C24_StageAndStatusIndependent ==
    [][/\ lastOp'.op = "move_lead_in_pipeline"
            => \A l \in LeadIds : leads'[l].status = leads[l].status
       /\ lastOp'.op = "advance_lead_status"
            => \A l \in LeadIds :
                  /\ leads'[l].pipeline_stage_id = leads[l].pipeline_stage_id
                  /\ leads'[l].stage_entered_at = leads[l].stage_entered_at]_vars

\* A lead that the rule advanced after a move put it into a stage, and whose
\* stage is the one of the move.
C24_Witness ==
    /\ lastOp.op = "advance_lead_status"
    /\ leads[lastOp.lead].status /= lastOp.before
    /\ Len(stage_history) > 0
    /\ leads[lastOp.lead].pipeline_stage_id
           = stage_history[Len(stage_history)].to_stage_id
    /\ leads[lastOp.lead].stage_entered_at \in Times

(***************************************************************************)
(* Properties of the failure paths of send and check-replies.              *)
(***************************************************************************)
\* C25: a send whose provider answer is not 202, or whose token refresh
\* failed, ends with an error and leaves every email's status, sent_at and
\* reply_status, every lead's status and activity_count, and the logs as
\* they were.
C25_FailedSendChangesNothing ==
    [][(/\ lastOp'.op = "send_email"
        /\ \/ lastOp'.auth = "refresh_failed"
           \/ lastOp'.status_code /= 202)
          => /\ lastOp'.code >= 400
             /\ DOMAIN emails' = DOMAIN emails
             /\ \A e \in DOMAIN emails :
                   /\ emails'[e].status = emails[e].status
                   /\ emails'[e].sent_at = emails[e].sent_at
                   /\ emails'[e].reply_status = emails[e].reply_status
             /\ \A l \in LeadIds :
                   /\ leads'[l].status = leads[l].status
                   /\ leads'[l].activity_count = leads[l].activity_count
             /\ logs' = logs]_vars

\* An approved email with a recipient whose send reached the provider and
\* got an answer other than 202: the request ended with 500 and the email is
\* still approved and unsent.
C25_Witness ==
    /\ lastOp.op = "send_email"
    /\ lastOp.auth = "ok"
    /\ lastOp.status_code /= 202
    /\ lastOp.code = 500
    /\ emails[lastOp.email].status = "approved"
    /\ emails[lastOp.email].sent_at = NULL
    /\ TotalLogs = 0

\* C26: a check-replies run whose inbox fetch is not answered 200, or that
\* raises while scanning, changes no sent email's reply_status, replied_at,
\* reply_snippet or lead_id and no lead's status: the matches made earlier
\* in the run are not persisted.
C26_FailedCheckChangesNothing ==
    [][(lastOp'.op = "check_email_replies" /\ lastOp'.code = 500)
          => /\ DOMAIN emails' = DOMAIN emails
             /\ \A e \in DOMAIN emails :
                   /\ emails'[e].reply_status = emails[e].reply_status
                   /\ emails'[e].replied_at = emails[e].replied_at
                   /\ emails'[e].reply_snippet = emails[e].reply_snippet
                   /\ emails'[e].lead_id = emails[e].lead_id
             /\ \A l \in LeadIds : leads'[l].status = leads[l].status]_vars

\* A run that fetched the inbox, matched the first sent email and raised on
\* a later one: it ended with 500 and the first email still awaits a reply.
C26_Witness ==
    /\ lastOp.op = "check_email_replies"
    /\ lastOp.code = 500
    /\ lastOp.inbox.status_code = 200
    /\ emails[1].reply_status = "no_reply"
    /\ LET i == first_stop(lastOp.inbox.value, emails[1])
       IN  /\ i > 0
           /\ is_reply(lastOp.inbox.value[i], emails[1]) = "reply"

(***************************************************************************)
(* Sent emails under review, send and check-replies together (SpecResend). *)
(***************************************************************************)
NextResend ==
    \/ \E e \in 1..MaxEmails : approve_email(e)
    \/ \E e \in 1..MaxEmails : reject_email(e)
    \/ \E e \in 1..MaxEmails, auth \in AuthOutcomes :
            \E status_code \in (IF auth = "ok" THEN {202, 400} ELSE {400}) :
                send_email(e, auth, status_code)
    \/ \E auth \in AuthOutcomes :
            \E inbox \in (IF auth = "ok" THEN PairInboxResponses
                          ELSE {[status_code |-> 500, value |-> << >>]}) :
                check_email_replies(auth, inbox)

SpecResend == InitReplies /\ [][NextResend]_vars

\* C27: once an email's reply_status is replied it stays replied, with the
\* same replied_at and reply_snippet, under every later approve, reject,
\* send and check-replies.
C27_RepliedIsFinal ==
    [][\A e \in DOMAIN emails :
          emails[e].reply_status = "replied"
              => /\ e \in DOMAIN emails'
                 /\ emails'[e].reply_status = "replied"
                 /\ emails'[e].replied_at = emails[e].replied_at
                 /\ emails'[e].reply_snippet = emails[e].reply_snippet]_vars

(***************************************************************************)
(* Concurrent send requests (SpecSendRace).  A request reads the email and *)
(* checks it, calls the provider, and then writes the email, the Log and   *)
(* the lead; nothing locks the row between the read and the write.         *)
(***************************************************************************)
\* The first part of send_email: the query, the status and recipient checks
\* and the token step.  A request that passes keeps the row it read.
send_load(r, e, auth) ==
    /\ reqs[r].pc = "idle"
    /\ e \in DOMAIN emails
    /\ LET code == IF emails[e].status \notin {"approved", "pending_review"} THEN 400
                   ELSE IF OrEmpty(send_to_email(emails[e], leads)) = << >> THEN 400
                   ELSE IF auth /= "ok" THEN 401
                   ELSE 0
       IN  /\ reqs' = [reqs EXCEPT ![r] =
                  IF code /= 0 THEN [pc |-> "done"]
                  ELSE [pc |-> "loaded", email_id |-> e, email |-> emails[e],
                        to_email |-> send_to_email(emails[e], leads)]]
           /\ lastOp' = [op |-> "send_load", req |-> r, email |-> e, code |-> code]
    /\ UNCHANGED <<leads, emails, logs, proposals, tracked, sync_status, stage_history, delivered>>

\* The rest of send_email: the sendMail request and, on a 202, the writes on
\* the row read earlier and the commit.  The UPDATE carries the columns whose
\* value differs from the one read.
send_post(r, status_code) ==
    /\ reqs[r].pc = "loaded"
    /\ LET e == reqs[r].email_id
           loaded == reqs[r].email
           lead_id == sent_lead_id(loaded, reqs[r].to_email, leads)
       IN  IF ~send_accepted(status_code)
           THEN /\ lastOp' = [op |-> "send_post", req |-> r, email |-> e, code |-> 500]
                /\ UNCHANGED <<leads, emails, logs, delivered>>
           ELSE /\ delivered' = [delivered EXCEPT ![e] = @ + 1]
                /\ emails' = [emails EXCEPT
                       ![e].status = "sent",
                       ![e].sent_at = "now",
                       ![e].reply_status =
                           IF loaded.reply_status = "no_reply" THEN @ ELSE "no_reply",
                       ![e].lead_id = IF lead_id = loaded.lead_id THEN @ ELSE lead_id]
                /\ logs' = [logs EXCEPT ![lead_id] = @ + 1]
                /\ leads' = IF lead_id = 0 THEN leads
                            ELSE [leads EXCEPT
                                    ![lead_id].activity_count = @ + 1,
                                    ![lead_id].status =
                                        advance_lead_status(@, "Attempted")]
                /\ lastOp' = [op |-> "send_post", req |-> r, email |-> e, code |-> 200]
    /\ reqs' = [reqs EXCEPT ![r] = [pc |-> "done"]]
    /\ UNCHANGED <<proposals, tracked, sync_status, stage_history>>

\* Emails waiting to be sent, as queue_email_for_review and approve_email
\* leave them.
UnsentRows ==
    { EmailRow(l, ADDR_A, SUBJ_HI, st, "no_reply") :
          l \in LeadIds \cup {0}, st \in {"pending_review", "approved"} }

InitSendRace ==
    /\ leads \in [LeadIds -> LeadRows]
    /\ emails \in [1..MaxEmails -> UnsentRows]
    /\ logs = [l \in 0..MaxLeads |-> 0]
    /\ proposals = [p \in 0..MaxLeads |-> [lead_id |-> p, status |-> "draft"]]
    /\ tracked = << >>
    /\ sync_status = NO_SYNC_STATUS
    /\ reqs = [r \in ReqIds |-> [pc |-> "idle"]]
    /\ stage_history = << >>
    /\ delivered = delivered_for(emails)
    /\ lastOp = [op |-> "none"]

NextSendRace ==
    \/ \E e \in 1..MaxEmails : approve_email(e)
    \/ \E r \in ReqIds, e \in 1..MaxEmails, auth \in AuthOutcomes : send_load(r, e, auth)
    \/ \E r \in ReqIds, status_code \in {202, 400} : send_post(r, status_code)

SpecSendRace == InitSendRace /\ [][NextSendRace]_vars

\* C28: each generated email is handed to the provider's send call at most
\* once, under every sequence and interleaving of approve and send: two
\* concurrent sends of the same approved email do not both deliver.
C28_DeliveredAtMostOnce ==
    \A e \in DOMAIN delivered : delivered[e] <= 1

(***************************************************************************)
(* Properties of the tracked emails and the sync status row (SpecSync).    *)
(***************************************************************************)
\* C29: there is at most one tracked email per provider message id, and a
\* re-sync of a batch that was just synced creates no new tracked email.
C29_OneTrackedEmailPerMessage ==
    /\ \A t1, t2 \in DOMAIN tracked :
          tracked[t1].microsoft_message_id = tracked[t2].microsoft_message_id
              => t1 = t2
    /\ (lastOp.op = "sync_emails" /\ lastOp.repeat /\ lastOp.code /= 401)
          => lastOp.created = 0

\* A batch with tracked messages synced a second time: the run completed and
\* the table holds the rows of the first run only.
C29_Witness ==
    /\ lastOp.op = "sync_emails"
    /\ lastOp.repeat
    /\ lastOp.code = 200
    /\ lastOp.created = 0
    /\ Len(tracked) > 0
    /\ \E i \in 1..Len(lastOp.response.value) :
          tracked[1].microsoft_message_id = lastOp.response.value[i].id

\* C30: after any sequence of sync runs, complete or failed, emails_synced
\* of the status row equals the number of tracked emails persisted, and a
\* run that ends with status error persists no tracked email.
C30_SyncedCountMatchesRows ==
    /\ sync_status.emails_synced = Len(tracked)
    /\ (lastOp.op = "sync_emails" /\ lastOp.code /= 401
            /\ sync_status.status = "error")
          => lastOp.created = 0

====
